---- MODULE Spec2Model ----
(***************************************************************************)
(* CodeSupervisor: the rule-based diagnostic engine (securityRules.ts),    *)
(* the client's health score (extension.ts), the knowledge base            *)
(* (knowledgeBase.ts) and the language server's handlers (server.ts,       *)
(* llmIntegration.ts).                                                     *)
(*                                                                         *)
(* A text is a sequence of characters, each character a one-character      *)
(* string.  The backtick cannot be written inside a TLA+ string, so it is  *)
(* the character named by Backtick.                                        *)
(***************************************************************************)
EXTENDS FiniteSets, Integers, Sequences, TLC

VARIABLES
    document,        \* rule engine: the document handed to runSecurityRules
    rules,           \* SecurityRuleRegistry.rules, a Map in insertion order
    lastRegistered,  \* history: for each rule id, the rule registered last
    lastRun,         \* rule engine: the outcome of the last runSecurityRules call
    kb,              \* knowledge base: documents, vectorStore, isInitialized
    builds,          \* knowledge base: the initVectorStore calls awaiting HNSWLib
    search,          \* knowledge base: the search awaiting similaritySearch
    llm,             \* llmIntegration: llmModel, embeddings, isEmbeddingsInitialized,
                     \* currentModelId
    server,          \* server: its phase, OPENAI_API_KEY, isLLMInitialized, and
                     \* whether its configuration request is in flight
    textDocuments,   \* server: the open documents by uri
    request,         \* llmIntegration: the operation awaiting the knowledge base or
                     \* the model
    reply,           \* what the last completed call or request returned
    completion,      \* server: the completion request being served, and the
                     \* answer of the model to the last one
    ghost,           \* client: GhostTextProvider and its calls
    sidebar,         \* client: SecuritySidebarProvider and its webview
    issues,          \* client: the SecurityIssue list being scored
    added,           \* client: how many issues were added to the list
    score            \* client: calculateSecurityScore(issues)

vars == <<document, rules, lastRegistered, lastRun, kb, builds, search, llm, server,
          textDocuments, request, reply, completion, ghost, sidebar, issues, added,
          score>>

NoValue == "undefined"

(***************************************************************************)
(* Characters and the character classes of the regular expressions.        *)
(***************************************************************************)
Backtick == "<backtick>"

chars ==
    [upper |-> <<"A", "B", "C", "D", "E", "F", "G", "H", "I", "J", "K", "L", "M",
                 "N", "O", "P", "Q", "R", "S", "T", "U", "V", "W", "X", "Y", "Z">>,
     lower |-> <<"a", "b", "c", "d", "e", "f", "g", "h", "i", "j", "k", "l", "m",
                 "n", "o", "p", "q", "r", "s", "t", "u", "v", "w", "x", "y", "z">>,
     capitals |-> {"A", "B", "C", "D", "E", "F", "G", "H", "I", "J", "K", "L", "M",
                   "N", "O", "P", "Q", "R", "S", "T", "U", "V", "W", "X", "Y", "Z"},
     word |-> {"A", "B", "C", "D", "E", "F", "G", "H", "I", "J", "K", "L", "M",
               "N", "O", "P", "Q", "R", "S", "T", "U", "V", "W", "X", "Y", "Z",
               "a", "b", "c", "d", "e", "f", "g", "h", "i", "j", "k", "l", "m",
               "n", "o", "p", "q", "r", "s", "t", "u", "v", "w", "x", "y", "z",
               "0", "1", "2", "3", "4", "5", "6", "7", "8", "9", "_"},
     space |-> {" ", "\t", "\n", "\r"},
     lineTerminators |-> {"\n", "\r"},
     quote |-> {"'", "\"", Backtick}]

\* the canonical form of a character under the i flag
Fold(c) ==
    IF c \in chars.capitals
    THEN chars.lower[CHOOSE i \in 1..26 : chars.upper[i] = c]
    ELSE c

\* the atoms that match one character:  .  \s  \w  [\w.]  ['"`]  [^'"`]  [_-]
InClass(cls, c) ==
    CASE cls = "dot"      -> c \notin chars.lineTerminators
      [] cls = "space"    -> c \in chars.space
      [] cls = "word"     -> c \in chars.word
      [] cls = "wordDot"  -> c \in chars.word \cup {"."}
      [] cls = "quote"    -> c \in chars.quote
      [] cls = "notQuote" -> c \notin chars.quote
      [] cls = "usDash"   -> c \in {"_", "-"}

(***************************************************************************)
(* A backtracking matcher with the semantics of the JavaScript RegExp      *)
(* engine for the constructs the rules use.  A pattern is a sequence of    *)
(* items; offsets are 0-based; the result is the end offset of the first   *)
(* match in backtracking order, or -1.                                     *)
(***************************************************************************)
CharAt(text, pos) == text[pos + 1]

LitAt(s, text, pos) ==
    /\ pos + Len(s) <= Len(text)
    /\ \A i \in 1..Len(s) : Fold(text[pos + i]) = Fold(s[i])

Max(S) == CHOOSE x \in S : \A y \in S : y <= x

Min(S) == CHOOSE x \in S : \A y \in S : x <= y

\* how many characters of the class follow pos, at most max when max >= 0
RunLen(cls, text, pos, max) ==
    LET limit == IF max < 0 \/ pos + max > Len(text) THEN Len(text) ELSE pos + max
    IN Min({e \in pos..limit :
               e = limit \/ ~InClass(cls, CharAt(text, e))}) - pos

RECURSIVE MatchHere(_, _, _, _)
RECURSIVE TryAlts(_, _, _, _, _, _)
RECURSIVE TryRep(_, _, _, _, _, _)

MatchHere(items, text, pos, cap) ==
    IF items = <<>> THEN pos
    ELSE LET h == Head(items)
             rest == Tail(items)
             \* \b : exactly one of the two neighbouring positions holds a word
             \* character
             IsWordAt(at) == at >= 0 /\ at < Len(text) /\ CharAt(text, at) \in chars.word
             AtWordBoundary == IsWordAt(pos - 1) # IsWordAt(pos)
         IN CASE h.k = "lit" ->
                   IF LitAt(h.s, text, pos)
                   THEN MatchHere(rest, text, pos + Len(h.s), cap) ELSE -1
              [] h.k = "alt" -> TryAlts(h.alts, 1, rest, text, pos, cap)
              [] h.k = "rep" ->
                   TryRep(rest, text, pos, cap, RunLen(h.cls, text, pos, h.max), h.min)
              [] h.k = "wb" ->
                   IF AtWordBoundary
                   THEN MatchHere(rest, text, pos, cap) ELSE -1
              [] h.k = "capture" ->
                   IF pos < Len(text) /\ InClass(h.cls, CharAt(text, pos))
                   THEN MatchHere(rest, text, pos + 1, CharAt(text, pos)) ELSE -1
              [] h.k = "backref" ->
                   IF pos < Len(text) /\ Fold(CharAt(text, pos)) = Fold(cap)
                   THEN MatchHere(rest, text, pos + 1, cap) ELSE -1
              [] h.k = "neglook" ->
                   IF LitAt(h.s, text, pos)
                   THEN -1 ELSE MatchHere(rest, text, pos, cap)

\* a greedy quantifier: the longest repetition after which the rest matches
TryRep(rest, text, pos, cap, n, min) ==
    LET ok == {c \in min..n : MatchHere(rest, text, pos + c, cap) >= 0}
    IN IF ok = {} THEN -1 ELSE MatchHere(rest, text, pos + Max(ok), cap)

\* an alternation: the alternatives in order, each followed by the rest
TryAlts(alts, i, rest, text, pos, cap) ==
    IF i > Len(alts) THEN -1
    ELSE LET r == MatchHere(alts[i] \o rest, text, pos, cap)
         IN IF r >= 0 THEN r ELSE TryAlts(alts, i + 1, rest, text, pos, cap)

NoMatch == [index |-> -1, end |-> -1]

RECURSIVE ExecAll(_, _, _)
\* the loop  while ((match = pattern.exec(text)) !== null)  of a g-flag pattern
ExecAll(pattern, text, lastIndex) ==
    LET \* RegExp.prototype.exec: the leftmost match starting at lastIndex or later
        starts == {s \in lastIndex..Len(text) : MatchHere(pattern, text, s, NoValue) >= 0}
        m == IF starts = {} THEN NoMatch
             ELSE [index |-> Min(starts),
                   end |-> MatchHere(pattern, text, Min(starts), NoValue)]
    IN IF m = NoMatch THEN <<>>
       ELSE <<m>> \o ExecAll(pattern, text, m.end)

(***************************************************************************)
(* The string literals of the rules, the documents of                      *)
(* securityRules.test.ts and the fragments of the generated documents.     *)
(***************************************************************************)
lit ==
    [SELECT |-> <<"S", "E", "L", "E", "C", "T">>,
     INSERT |-> <<"I", "N", "S", "E", "R", "T">>,
     UPDATE |-> <<"U", "P", "D", "A", "T", "E">>,
     DELETE |-> <<"D", "E", "L", "E", "T", "E">>,
     DROP |-> <<"D", "R", "O", "P">>,
     execute |-> <<"e", "x", "e", "c", "u", "t", "e">>,
     execSql |-> <<"e", "x", "e", "c", "S", "q", "l">>,
     plus |-> <<"+">>,
     lParen |-> <<"(">>,
     rParen |-> <<")">>,
     innerHTML |-> <<"i", "n", "n", "e", "r", "H", "T", "M", "L">>,
     outerHTML |-> <<"o", "u", "t", "e", "r", "H", "T", "M", "L">>,
     equals |-> <<"=">>,
     documentWrite |-> <<"d", "o", "c", "u", "m", "e", "n", "t", ".", "w", "r", "i", "t", "e">>,
     dollar |-> <<"$">>,
     dotHtml |-> <<".", "h", "t", "m", "l">>,
     password |-> <<"p", "a", "s", "s", "w", "o", "r", "d">>,
     api |-> <<"a", "p", "i">>,
     key |-> <<"k", "e", "y">>,
     secret |-> <<"s", "e", "c", "r", "e", "t">>,
     token |-> <<"t", "o", "k", "e", "n">>,
     credential |-> <<"c", "r", "e", "d", "e", "n", "t", "i", "a", "l">>,
     s |-> <<"s">>,
     processEnv |-> <<"p", "r", "o", "c", "e", "s", "s", ".", "e", "n", "v">>,
     consoleDot |-> <<"c", "o", "n", "s", "o", "l", "e", ".">>,
     log |-> <<"l", "o", "g">>,
     debug |-> <<"d", "e", "b", "u", "g">>,
     info |-> <<"i", "n", "f", "o">>,
     apiKey |-> <<"a", "p", "i", "K", "e", "y">>,
     testPattern |-> <<"T", "E", "S", "T", "_", "P", "A", "T", "T", "E", "R", "N">>]

code ==
    [SQL01 |-> <<"c", "o", "n", "s", "t", " ", "q", "u", "e", "r", "y", " ", "=", " ", "\"",
            "S", "E", "L", "E", "C", "T", " ", "*", " ", "F", "R", "O", "M", " ", "u", "s",
            "e", "r", "s", " ", "W", "H", "E", "R", "E", " ", "u", "s", "e", "r", "n", "a",
            "m", "e", " ", "=", " ", "'", "\"", " ", "+", " ", "u", "s", "e", "r", "n", "a",
            "m", "e", " ", "+", " ", "\"", "'", "\"", ";">>,
     SQL02 |-> <<"c", "o", "n", "s", "t", " ", "q", "u", "e", "r", "y", " ", "=", " ", "\"",
            "S", "E", "L", "E", "C", "T", " ", "*", " ", "F", "R", "O", "M", " ", "u", "s",
            "e", "r", "s", " ", "W", "H", "E", "R", "E", " ", "u", "s", "e", "r", "n", "a",
            "m", "e", " ", "=", " ", "?", "\"", ";", "\n", " ", " ", " ", " ", " ", " ", " ",
            " ", " ", " ", " ", " ", " ", " ", " ", " ", " ", " ", " ", "d", "b", ".", "q",
            "u", "e", "r", "y", "(", "q", "u", "e", "r", "y", ",", " ", "[", "u", "s", "e",
            "r", "n", "a", "m", "e", "]", ")", ";">>,
     SQL03 |-> <<"c", "o", "n", "s", "t", " ", "q", "u", "e", "r", "y", " ", "=", " ",
            Backtick, "S", "E", "L", "E", "C", "T", " ", "*", " ", "F", "R", "O", "M", " ",
            "u", "s", "e", "r", "s", " ", "W", "H", "E", "R", "E", " ", "r", "o", "l", "e",
            " ", "=", " ", "$", "{", "u", "s", "e", "r", "R", "o", "l", "e", "}", Backtick, ";">>,
     XSS01 |-> <<"e", "l", "e", "m", "e", "n", "t", ".", "i", "n", "n", "e", "r", "H", "T",
            "M", "L", " ", "=", " ", "u", "s", "e", "r", "I", "n", "p", "u", "t", ";">>,
     XSS02 |-> <<"e", "l", "e", "m", "e", "n", "t", ".", "t", "e", "x", "t", "C", "o", "n",
            "t", "e", "n", "t", " ", "=", " ", "u", "s", "e", "r", "I", "n", "p", "u", "t", ";">>,
     XSS03 |-> <<"$", "(", "'", "#", "e", "l", "e", "m", "e", "n", "t", "'", ")", ".", "h",
            "t", "m", "l", "(", "u", "s", "e", "r", "I", "n", "p", "u", "t", ")", ";">>,
     DATA01 |-> <<"c", "o", "n", "s", "t", " ", "a", "p", "i", "K", "e", "y", " ", "=", " ",
            "\"", "s", "k", "_", "t", "e", "s", "t", "_", "1", "2", "3", "4", "5", "6", "7",
            "8", "9", "0", "a", "b", "c", "d", "e", "f", "\"", ";">>,
     DATA02 |-> <<"c", "o", "n", "s", "t", " ", "a", "p", "i", "K", "e", "y", " ", "=", " ",
            "p", "r", "o", "c", "e", "s", "s", ".", "e", "n", "v", ".", "A", "P", "I", "_",
            "K", "E", "Y", ";">>,
     DATA03 |-> <<"c", "o", "n", "s", "o", "l", "e", ".", "l", "o", "g", "(", "\"", "P", "a",
            "s", "s", "w", "o", "r", "d", " ", "i", "s", ":", "\"", ",", " ", "u", "s", "e",
            "r", "P", "a", "s", "s", "w", "o", "r", "d", ")", ";">>,
     TestPattern |-> <<"c", "o", "n", "s", "t", " ", "t", "e", "s", "t", " ", "=", " ", "\"",
            "T", "E", "S", "T", "_", "P", "A", "T", "T", "E", "R", "N", "\"", ";">>]

frag ==
    [constQuery |-> <<"c", "o", "n", "s", "t", " ", "q", "u", "e", "r", "y", " ", "=", " ">>,
     fromWhere |-> <<" ", "*", " ", "F", "R", "O", "M", " ", "u", "s", "e", "r", "s", " ",
            "W", "H", "E", "R", "E", " ", "u", "s", "e", "r", "n", "a", "m", "e", " ", "=",
            " ", "'">>,
     concatTail |-> <<" ", "+", " ", "\"", "'", "\"", ";">>,
     fromWhereParam |-> <<" ", "*", " ", "F", "R", "O", "M", " ", "u", "s", "e", "r", "s",
            " ", "W", "H", "E", "R", "E", " ", "u", "s", "e", "r", "n", "a", "m", "e", " ",
            "=", " ", "?", "\"", ";">>,
     dbQuery |-> <<"d", "b", ".", "q", "u", "e", "r", "y", "(", "q", "u", "e", "r", "y", ",",
            " ", "[">>,
     dbQueryEnd |-> <<"]", ")", ";">>,
     fromWhereRole |-> <<" ", "*", " ", "F", "R", "O", "M", " ", "u", "s", "e", "r", "s", " ",
            "W", "H", "E", "R", "E", " ", "r", "o", "l", "e", " ", "=", " ", "$", "{">>,
     elementDot |-> <<"e", "l", "e", "m", "e", "n", "t", ".">>,
     textContent |-> <<"t", "e", "x", "t", "C", "o", "n", "t", "e", "n", "t">>,
     selector |-> <<"$", "(", "'", "#", "e", "l", "e", "m", "e", "n", "t", "'", ")">>,
     htmlCall |-> <<".", "h", "t", "m", "l", "(">>,
     callEnd |-> <<")", ";">>,
     const |-> <<"c", "o", "n", "s", "t", " ">>,
     apiKeyLiteral |-> <<"s", "k", "_", "t", "e", "s", "t", "_", "1", "2", "3", "4", "5", "6",
            "7", "8", "9", "0", "a", "b", "c", "d", "e", "f">>,
     envRead |-> <<"p", "r", "o", "c", "e", "s", "s", ".", "e", "n", "v", ".", "A", "P", "I",
            "_", "K", "E", "Y">>,
     username |-> <<"u", "s", "e", "r", "n", "a", "m", "e">>,
     reqBodyName |-> <<"r", "e", "q", ".", "b", "o", "d", "y", ".", "n", "a", "m", "e">>,
     apiUnderscoreKey |-> <<"a", "p", "i", "_", "k", "e", "y">>,
     credentials |-> <<"c", "r", "e", "d", "e", "n", "t", "i", "a", "l", "s">>,
     userDotPassword |-> <<"u", "s", "e", "r", ".", "p", "a", "s", "s", "w", "o", "r", "d">>]

(***************************************************************************)
(* securityRules.ts: the three built-in rules.                             *)
(***************************************************************************)
rulePatterns ==
    LET Lit(s) == [k |-> "lit", s |-> s]
        Alt(alts) == [k |-> "alt", alts |-> alts]
        Star(cls) == [k |-> "rep", cls |-> cls, min |-> 0, max |-> -1]
        Plus(cls) == [k |-> "rep", cls |-> cls, min |-> 1, max |-> -1]
        Opt(cls) == [k |-> "rep", cls |-> cls, min |-> 0, max |-> 1]
        WordBoundary == [k |-> "wb"]
        Capture(cls) == [k |-> "capture", cls |-> cls]
        BackRef == [k |-> "backref"]
        NegLookahead(s) == [k |-> "neglook", s |-> s]
        OptLit(s) == Alt(<< <<Lit(s)>>, <<>> >>)
    IN [
      \* /\b(SELECT|INSERT|UPDATE|DELETE|DROP)\b.*\+\s*[\w.]+/gi
      \* /\bexecute\s*\(\s*.*\+\s*[\w.]+/gi
      \* /\bexecSql\s*\(\s*.*\+\s*[\w.]+/gi
      sqlInjection |->
          << <<WordBoundary,
               Alt(<< <<Lit(lit.SELECT)>>, <<Lit(lit.INSERT)>>, <<Lit(lit.UPDATE)>>,
                      <<Lit(lit.DELETE)>>, <<Lit(lit.DROP)>> >>),
               WordBoundary, Star("dot"), Lit(lit.plus), Star("space"), Plus("wordDot")>>,
             <<WordBoundary, Lit(lit.execute), Star("space"), Lit(lit.lParen), Star("space"),
               Star("dot"), Lit(lit.plus), Star("space"), Plus("wordDot")>>,
             <<WordBoundary, Lit(lit.execSql), Star("space"), Lit(lit.lParen), Star("space"),
               Star("dot"), Lit(lit.plus), Star("space"), Plus("wordDot")>> >>,
      \* /\b(innerHTML|outerHTML)\s*=\s*[\w.]+/gi
      \* /document\.write\s*\(\s*[\w.]+\s*\)/gi
      \* /\$\s*\(\s*.*\s*\)\.html\s*\(\s*[\w.]+\s*\)/gi
      xss |->
          << <<WordBoundary, Alt(<< <<Lit(lit.innerHTML)>>, <<Lit(lit.outerHTML)>> >>),
               Star("space"), Lit(lit.equals), Star("space"), Plus("wordDot")>>,
             <<Lit(lit.documentWrite), Star("space"), Lit(lit.lParen), Star("space"),
               Plus("wordDot"), Star("space"), Lit(lit.rParen)>>,
             <<Lit(lit.dollar), Star("space"), Lit(lit.lParen), Star("space"), Star("dot"),
               Star("space"), Lit(lit.rParen), Lit(lit.dotHtml), Star("space"), Lit(lit.lParen),
               Star("space"), Plus("wordDot"), Star("space"), Lit(lit.rParen)>> >>,
      \* /\b(password|api[_-]?key|secret|token|credential)s?\s*=\s*(['"`])(?!process\.env)[^'"`]+\2/gi
      \* /\bconsole\.(log|debug|info)\s*\(.*\b(password|apiKey|secret|token)\b.*\)/gi
      sensitiveData |->
          << <<WordBoundary,
               Alt(<< <<Lit(lit.password)>>, <<Lit(lit.api), Opt("usDash"), Lit(lit.key)>>,
                      <<Lit(lit.secret)>>, <<Lit(lit.token)>>, <<Lit(lit.credential)>> >>),
               OptLit(lit.s), Star("space"), Lit(lit.equals), Star("space"), Capture("quote"),
               NegLookahead(lit.processEnv), Plus("notQuote"), BackRef>>,
             <<WordBoundary, Lit(lit.consoleDot),
               Alt(<< <<Lit(lit.log)>>, <<Lit(lit.debug)>>, <<Lit(lit.info)>> >>),
               Star("space"), Lit(lit.lParen), Star("dot"), WordBoundary,
               Alt(<< <<Lit(lit.password)>>, <<Lit(lit.apiKey)>>, <<Lit(lit.secret)>>,
                      <<Lit(lit.token)>> >>),
               WordBoundary, Star("dot"), Lit(lit.rParen)>> >>]

\* DiagnosticSeverity of vscode-languageserver
DiagnosticSeverity == [Error |-> 1, Warning |-> 2, Information |-> 3, Hint |-> 4]

messages ==
    [sqlInjection |-> "SQL-injection risk, use parameterized queries",
     xss |-> "XSS risk, use a safe DOM API or a template",
     sensitiveData |-> "sensitive data may be hard-coded or leaked",
     testRule |-> "test rule fired"]

DiagnosticSource == "security-assistant"

\* TextDocument.positionAt: the 0-based line and column of an offset
positionAt(text, offset) ==
    LET breaks == {i \in 1..offset : text[i] = "\n"}
        lineStart == CHOOSE x \in {0} \cup breaks : \A y \in breaks : y <= x
    IN [line |-> Cardinality(breaks), character |-> offset - lineStart]

RECURSIVE ScanPatterns(_, _, _, _, _)
\* for (const pattern of patterns) { while ((match = pattern.exec(text)) ...) push }
ScanPatterns(patterns, i, text, severity, message) ==
    IF i > Len(patterns) THEN <<>>
    ELSE LET ms == ExecAll(patterns[i], text, 0)
             \* diagnostics.push({severity, range, message, source}) for one match
             MakeDiagnostic(m) ==
                 [severity |-> severity,
                  range    |-> [start |-> positionAt(text, m.index),
                                end |-> positionAt(text, m.end)],
                  message  |-> message,
                  source   |-> DiagnosticSource]
         IN [j \in 1..Len(ms) |-> MakeDiagnostic(ms[j])]
            \o ScanPatterns(patterns, i + 1, text, severity, message)

\* a SecurityRule; validate is named by impl and applied by Validate
sqlInjectionRule ==
    [id |-> "security-sql-injection", name |-> "SQL Injection Detection",
     severity |-> DiagnosticSeverity.Error, impl |-> "sqlInjection"]

xssVulnerabilityRule ==
    [id |-> "security-xss", name |-> "Cross-Site Scripting Detection",
     severity |-> DiagnosticSeverity.Error, impl |-> "xss"]

sensitiveDataRule ==
    [id |-> "security-sensitive-data", name |-> "Sensitive Data Exposure",
     severity |-> DiagnosticSeverity.Warning, impl |-> "sensitiveData"]

\* the rule the registry test registers at run time
testRule ==
    [id |-> "security-test-rule", name |-> "Test Rule",
     severity |-> DiagnosticSeverity.Information, impl |-> "testPattern"]

\* String.prototype.indexOf from offset pos: the first offset of s, or -1
indexOf(text, s, pos) ==
    LET at == {p \in pos..(Len(text) - Len(s)) : \A i \in 1..Len(s) : text[p + i] = s[i]}
    IN IF at = {} THEN -1 ELSE Min(at)

sqlInjectionValidate(text) ==
    ScanPatterns(rulePatterns.sqlInjection, 1, text, DiagnosticSeverity.Error, messages.sqlInjection)

xssValidate(text) ==
    ScanPatterns(rulePatterns.xss, 1, text, DiagnosticSeverity.Warning, messages.xss)

sensitiveDataValidate(text) ==
    ScanPatterns(rulePatterns.sensitiveData, 1, text, DiagnosticSeverity.Warning, messages.sensitiveData)

testRuleValidate(text) ==
    LET at == indexOf(text, lit.testPattern, 0)
    IN IF at >= 0
       THEN <<[severity |-> DiagnosticSeverity.Information,
               range    |-> [start |-> positionAt(text, at), end |-> positionAt(text, at + 12)],
               message  |-> messages.testRule,
               source   |-> DiagnosticSource]>>
       ELSE <<>>

\* rule.validate(document): the diagnostics, or a raised error (a rejected promise)
Validate(rule, text) ==
    CASE rule.impl = "sqlInjection"  -> [threw |-> FALSE, diagnostics |-> sqlInjectionValidate(text)]
      [] rule.impl = "xss"           -> [threw |-> FALSE, diagnostics |-> xssValidate(text)]
      [] rule.impl = "sensitiveData" -> [threw |-> FALSE, diagnostics |-> sensitiveDataValidate(text)]
      [] rule.impl = "testPattern"   -> [threw |-> FALSE, diagnostics |-> testRuleValidate(text)]
      [] rule.impl = "throws"        -> [threw |-> TRUE, diagnostics |-> <<>>]

(***************************************************************************)
(* The documents the rules are run on: the documents of                    *)
(* securityRules.test.ts, and documents of the same shapes with the        *)
(* keyword, the names and the white space between the tokens varied.       *)
(***************************************************************************)
DocInputs ==
    LET Gaps == {<<>>, <<" ">>, <<"\n">>}
        Blank == {<<" ">>}
        Keywords == {lit.SELECT, lit.INSERT, lit.UPDATE, lit.DELETE, lit.DROP}
        Identifiers == {frag.username, frag.reqBodyName}
        HtmlProperties == {lit.innerHTML, lit.outerHTML}
        SecretNames == {lit.password, lit.apiKey, frag.apiUnderscoreKey, lit.secret,
                        lit.token, frag.credentials}
        LogFunctions == {lit.log, lit.debug, lit.info}
        LoggedSecrets == {lit.password, lit.apiKey, frag.userDotPassword}
        Fixtures == {code.SQL01, code.SQL02, code.SQL03, code.XSS01, code.XSS02, code.XSS03,
                     code.DATA01, code.DATA02, code.DATA03, code.TestPattern}
        Input(shape, words, gaps1, gaps2, args) ==
            [shape : {shape}, word : words, gap1 : gaps1, gap2 : gaps2, arg : args]
    IN Input("fixture", Fixtures, {<<>>}, {<<>>}, {<<>>})
       \cup Input("sqlConcat", Keywords, Gaps, Gaps, {frag.username})
       \cup Input("sqlParam", Keywords, Gaps, {<<>>}, {frag.username})
       \cup Input("sqlTemplate", Keywords, {<<>>}, {<<>>}, Identifiers)
       \cup Input("domAssign", HtmlProperties \cup {frag.textContent}, Gaps, Gaps,
                  {frag.reqBodyName})
       \cup Input("jqueryHtml", {lit.dotHtml}, Gaps, Gaps, Identifiers)
       \cup Input("secretAssign", SecretNames, Gaps, Blank, {<<q>> : q \in chars.quote})
       \cup Input("envAssign", SecretNames, Gaps, Blank, {frag.envRead})
       \cup Input("logSecret", LogFunctions, Gaps, Gaps, LoggedSecrets)

\* the text of a document
Render(d) ==
    CASE d.shape = "fixture" -> d.word
      [] d.shape = "sqlConcat" ->
           frag.constQuery \o <<"\"">> \o d.word \o frag.fromWhere \o <<"\"">>
           \o d.gap1 \o lit.plus \o d.gap2 \o d.arg \o frag.concatTail
      [] d.shape = "sqlParam" ->
           frag.constQuery \o <<"\"">> \o d.word \o frag.fromWhereParam
           \o d.gap1 \o frag.dbQuery \o d.arg \o frag.dbQueryEnd
      [] d.shape = "sqlTemplate" ->
           frag.constQuery \o <<Backtick>> \o d.word \o frag.fromWhereRole
           \o d.arg \o <<"}", Backtick, ";">>
      [] d.shape = "domAssign" ->
           frag.elementDot \o d.word \o d.gap1 \o lit.equals \o d.gap2 \o d.arg \o <<";">>
      [] d.shape = "jqueryHtml" ->
           frag.selector \o d.gap1 \o frag.htmlCall \o d.gap2 \o d.arg \o frag.callEnd
      [] d.shape = "secretAssign" ->
           frag.const \o d.word \o d.gap1 \o lit.equals \o d.gap2
           \o d.arg \o frag.apiKeyLiteral \o d.arg \o <<";">>
      [] d.shape = "envAssign" ->
           frag.const \o d.word \o d.gap1 \o lit.equals \o d.gap2 \o d.arg \o <<";">>
      [] d.shape = "logSecret" ->
           lit.consoleDot \o d.word \o lit.lParen \o d.gap1 \o d.arg \o d.gap2 \o frag.callEnd

(***************************************************************************)
(* securityRules.ts: the registry and runSecurityRules.                    *)
(***************************************************************************)
undefinedRule == [id |-> NoValue, name |-> NoValue, severity |-> 0, impl |-> NoValue]

RuleIndex(rs, id) == {i \in 1..Len(rs) : rs[i].id = id}

\* a registry that keeps the first rule registered under an id
registerRule_KeepFirst(rs, rule) ==
    IF RuleIndex(rs, rule.id) = {} THEN Append(rs, rule) ELSE rs

\* Map.prototype.set: a known key keeps its place, a new key goes last
registerRule(rs, rule) ==
    IF RuleIndex(rs, rule.id) = {} THEN Append(rs, rule)
    ELSE [i \in 1..Len(rs) |-> IF rs[i].id = rule.id THEN rule ELSE rs[i]]

getRules(rs) == rs

getRule(rs, id) ==
    IF RuleIndex(rs, id) = {} THEN undefinedRule ELSE rs[CHOOSE i \in RuleIndex(rs, id) : TRUE]

\* the module's top level: the three built-in rules are registered on load
securityRuleRegistry ==
    registerRule(registerRule(registerRule(<<>>, sqlInjectionRule), xssVulnerabilityRule),
                 sensitiveDataRule)

\* a rule whose validate raises an error
brokenRule ==
    [id |-> "security-broken", name |-> "Broken Rule",
     severity |-> DiagnosticSeverity.Error, impl |-> "throws"]

\* a rule that takes the place of the built-in SQL rule and raises an error
brokenSqlRule == [sqlInjectionRule EXCEPT !.impl = "throws"]

RuntimeRules == {testRule, brokenRule, brokenSqlRule, sqlInjectionRule}

RuleIds == {r.id : r \in RuntimeRules} \cup {xssVulnerabilityRule.id, sensitiveDataRule.id}

NotRun == [called |-> FALSE, returned |-> FALSE, diagnostics |-> <<>>, byRule |-> <<>>]

RECURSIVE runLoop_NoCatch(_, _, _, _)
\* the loop without its try/catch: the first error ends the pass
runLoop_NoCatch(rs, i, text, acc) ==
    IF i > Len(rs) THEN acc
    ELSE LET v == Validate(rs[i], text)
         IN IF v.threw THEN [acc EXCEPT !.returned = FALSE]
            ELSE runLoop_NoCatch(rs, i + 1, text,
                     [acc EXCEPT !.diagnostics = @ \o v.diagnostics,
                                 !.byRule = Append(@, [id |-> rs[i].id, threw |-> FALSE,
                                                       diagnostics |-> v.diagnostics])])

RECURSIVE runLoop(_, _, _, _)
\* for (const rule of rules) { try { push all of await rule.validate(document) } catch { log } }
runLoop(rs, i, text, acc) ==
    IF i > Len(rs) THEN acc
    ELSE LET v == Validate(rs[i], text)
         IN runLoop(rs, i + 1, text,
                [acc EXCEPT !.diagnostics = @ \o (IF v.threw THEN <<>> ELSE v.diagnostics),
                            !.byRule = Append(@, [id |-> rs[i].id, threw |-> v.threw,
                                                  diagnostics |-> v.diagnostics])])

\* a pass that keeps one finding for each span
runSecurityRules_OnePerSpan(rs, text) ==
    LET run == runLoop(getRules(rs), 1, text,
                       [called |-> TRUE, returned |-> TRUE, diagnostics |-> <<>>,
                        byRule |-> <<>>])
        first == {i \in DOMAIN run.diagnostics :
                     \A j \in 1..(i - 1) : run.diagnostics[j].range # run.diagnostics[i].range}
        RECURSIVE Keep(_)
        Keep(i) == IF i > Len(run.diagnostics) THEN <<>>
                   ELSE (IF i \in first THEN <<run.diagnostics[i]>> ELSE <<>>) \o Keep(i + 1)
    IN [run EXCEPT !.diagnostics = Keep(1)]

\* runSecurityRules(document): the findings, and what each rule of the pass did
runSecurityRules(rs, text) ==
    runLoop(getRules(rs), 1, text,
            [called |-> TRUE, returned |-> TRUE, diagnostics |-> <<>>, byRule |-> <<>>])

(***************************************************************************)
(* extension.ts: diagnostics to issues, and the health score.              *)
(***************************************************************************)
Severities == <<"critical", "high", "medium", "low">>

\* one SecurityIssue for each diagnostic whose source is security-assistant
convertDiagnosticsToIssues(diags) ==
    LET kept == SelectSeq(diags, LAMBDA d : d.source = DiagnosticSource)
        \* the switch on diag.severity
        IssueSeverity(diagSeverity) ==
            CASE diagSeverity = DiagnosticSeverity.Error       -> "critical"
              [] diagSeverity = DiagnosticSeverity.Warning     -> "high"
              [] diagSeverity = DiagnosticSeverity.Information -> "medium"
              [] OTHER                                         -> "low"
    IN [i \in 1..Len(kept) |->
           [message  |-> kept[i].message,
            severity |-> IssueSeverity(kept[i].severity),
            line     |-> kept[i].range.start.line + 1,
            column   |-> kept[i].range.start.character + 1]]

weights == [critical |-> 10, high |-> 5, medium |-> 2, low |-> 1]

RECURSIVE Deduction(_, _)
\* issues.forEach(issue => deduction += weights[issue.severity] || 0)
Deduction(is, i) ==
    IF i > Len(is) THEN 0
    ELSE (IF is[i].severity \in DOMAIN weights THEN weights[is[i].severity] ELSE 0)
         + Deduction(is, i + 1)

\* the score without its clamps
calculateSecurityScore_Unclamped(is) == 100 - Deduction(is, 1)

calculateSecurityScore(is) ==
    IF Len(is) = 0 THEN 100
    ELSE LET deduction == IF Deduction(is, 1) < 100 THEN Deduction(is, 1) ELSE 100
         IN IF 100 - deduction > 0 THEN 100 - deduction ELSE 0

(***************************************************************************)
(* knowledgeBase.ts.  The text of a knowledge document is kept with every  *)
(* character outside ASCII written as "#"; the corpus is a sequence of     *)
(* document names.                                                          *)
(***************************************************************************)
kbText ==
    [SEC001 |-> <<"S", "Q", "L", "#", "#", "#", "#", "#", "#", "#", "#", "#", "#", "#", "#",
            "#", "#", "#", "#", "#", "#", "#", "#", "#", "#", "S", "Q", "L", "#", "#", "#",
            "#", "#", "#", "#", "#", "#", "#", "#", "#", "#", "#", "#", "#", "#", "#", "#",
            "#", "#", "O", "R", "M", "#", "#", "#", "#", "S", "Q", "L", "#", "#", "#">>,
     SEC002 |-> <<"X", "S", "S", "#", "#", "#", "#", "#", "#", "#", "#", "#", "#", "#", "#",
            "#", "#", "#", "#", "#", "#", "#", "#", "#", "#", "#", "#", "#", "#", "#", "#",
            "#", "#", "#", "#", "#", "#", "#", "#", "#", "#", "(", "C", "S", "P", ")", "#",
            "#", "#", "#", "#", "#", "#", "#", "#", "#", "#", "#", "#", "#">>,
     SEC003 |-> <<"#", "#", "#", "#", "#", "#", "#", "#", "#", "#", "#", "#", "#", "#", "#",
            "#", "#", "#", "#", "#", "#", "#", "#", "#", "#", "#", "#", "#", "#", "#", "#",
            "#", "#", "#", "#", "#", "#", "#", "#", "#", "#", "#", "#", "#", "#", "#", "#">>,
     SEC004 |-> <<"#", "#", "#", "#", "#", "#", "#", "#", "#", "#", "#", "#", "#", "#", "#",
            "#", "#", "#", "#", "#", "#", "#", "#", "#", "#", "#", "#", "#", "#", "#", "#",
            "#", "#", "#", "#", "#", "#", "#", "#", "#", "#", "#", "#", "#", "#", "J", "S",
            "O", "N", "#">>,
     Custom |-> <<"U", "s", "e", " ", "p", "r", "e", "p", "a", "r", "e", "d", " ", "s", "t",
            "a", "t", "e", "m", "e", "n", "t", "s", " ", "f", "o", "r", " ", "e", "v", "e",
            "r", "y", " ", "S", "Q", "L", " ", "q", "u", "e", "r", "y">>,
     sqlInjectionRisk |-> <<"s", "q", "l", " ", "i", "n", "j", "e", "c", "t", "i", "o", "n",
            " ", "r", "i", "s", "k">>,
     xssInHtml |-> <<"X", "S", "S", " ", "i", "n", " ", " ", "h", "t", "m", "l", " ">>,
     customSqlQuery |-> <<"c", "u", "s", "t", "o", "m", " ", "s", "q", "l", " ", "q", "u", "e", "r", "y">>,
     empty |-> <<>>]

meta ==
    [sqlInjection |-> <<"s", "q", "l", "-", "i", "n", "j", "e", "c", "t", "i", "o", "n">>,
     xss |-> <<"x", "s", "s">>,
     sensitiveData |-> <<"s", "e", "n", "s", "i", "t", "i", "v", "e", "-", "d", "a", "t", "a">>,
     deserialization |-> <<"d", "e", "s", "e", "r", "i", "a", "l", "i", "z", "a", "t", "i",
            "o", "n">>,
     custom |-> <<"c", "u", "s", "t", "o", "m">>,
     database |-> <<"d", "a", "t", "a", "b", "a", "s", "e">>,
     injection |-> <<"i", "n", "j", "e", "c", "t", "i", "o", "n">>,
     query |-> <<"q", "u", "e", "r", "y">>,
     web |-> <<"w", "e", "b">>,
     javascript |-> <<"j", "a", "v", "a", "s", "c", "r", "i", "p", "t">>,
     credentials |-> <<"c", "r", "e", "d", "e", "n", "t", "i", "a", "l", "s">>,
     secrets |-> <<"s", "e", "c", "r", "e", "t", "s">>,
     configuration |-> <<"c", "o", "n", "f", "i", "g", "u", "r", "a", "t", "i", "o", "n">>,
     serialization |-> <<"s", "e", "r", "i", "a", "l", "i", "z", "a", "t", "i", "o", "n">>,
     rce |-> <<"r", "c", "e">>,
     inputValidation |-> <<"i", "n", "p", "u", "t", "-", "v", "a", "l", "i", "d", "a", "t",
            "i", "o", "n">>,
     sql |-> <<"s", "q", "l">>]

\* new Document({pageContent, metadata})
Document(pageContent, category, severity, id, tags) ==
    [pageContent |-> pageContent,
     metadata |-> [category |-> category, severity |-> severity, id |-> id, tags |-> tags]]

\* the pageContent of an item that has no such field
undefinedText == <<NoValue>>

\* the documents of createDefaultKnowledge, the first entries of
\* data/securityKnowledge.json, a document an operator imports, and an item
\* that carries metadata only
KnowledgeDocs ==
    [name \in {"SEC-001", "SEC-002", "SEC-003", "SEC-004", "CUSTOM-1", "CUSTOM-2",
               "CUSTOM-3"} |->
        CASE name = "SEC-001" ->
               Document(kbText.SEC001, meta.sqlInjection, "high", "SEC-001",
                        <<meta.database, meta.injection, meta.query>>)
          [] name = "SEC-002" ->
               Document(kbText.SEC002, meta.xss, "high", "SEC-002",
                        <<meta.web, meta.javascript, meta.injection>>)
          [] name = "SEC-003" ->
               Document(kbText.SEC003, meta.sensitiveData, "medium", "SEC-003",
                        <<meta.credentials, meta.secrets, meta.configuration>>)
          [] name = "SEC-004" ->
               Document(kbText.SEC004, meta.deserialization, "high", "SEC-004",
                        <<meta.serialization, meta.rce, meta.inputValidation>>)
          [] name = "CUSTOM-1" ->
               Document(kbText.Custom, meta.custom, "low", "CUSTOM-1", <<meta.sql, meta.query>>)
          [] name = "CUSTOM-2" ->
               Document(undefinedText, meta.custom, "low", "CUSTOM-2", <<>>)
          [] name = "CUSTOM-3" ->
               Document(kbText.Custom, meta.custom, "low", "CUSTOM-3", <<>>)]

defaultDocs == <<"SEC-001", "SEC-002", "SEC-003">>

fileDocs == <<"SEC-001", "SEC-004">>

\* a knowledge file whose second item has no pageContent
contentlessDocs == <<"SEC-001", "CUSTOM-2">>

customDocs == <<"CUSTOM-1", "CUSTOM-3">>

Queries == {kbText.sqlInjectionRisk, kbText.empty}

\* the queries of the searches that are answered without an index
SearchQueries == Queries \cup {kbText.xssInHtml, kbText.customSqlQuery}

toLowerCase(s) == [i \in 1..Len(s) |-> Fold(s[i])]

includes(text, s) == indexOf(text, s, 0) >= 0

RECURSIVE split(_)
\* String.prototype.split(/\s+/)
split(s) ==
    LET ws == {i \in 1..Len(s) : s[i] \in chars.space}
    IN IF ws = {} THEN <<s>>
       ELSE LET first == Min(ws)
                next == Min({j \in first..(Len(s) + 1) : j = Len(s) + 1 \/ s[j] \notin chars.space})
            IN <<SubSeq(s, 1, first - 1)>> \o split(SubSeq(s, next, Len(s)))

\* doc.pageContent.toLowerCase() raises a TypeError when pageContent is undefined
scoreThrows(doc) == doc.pageContent = undefinedText

\* the score simpleKeywordSearch gives a document for a query
keywordScore(doc, query) ==
    LET keywords == split(toLowerCase(query))
        content == toLowerCase(doc.pageContent)
    IN Cardinality({i \in 1..Len(keywords) : includes(content, keywords[i])})
       + (IF doc.metadata.category # <<>>
             /\ includes(toLowerCase(query), toLowerCase(doc.metadata.category))
          THEN 2 ELSE 0)
       + Cardinality({i \in 1..Len(doc.metadata.tags) :
                         includes(toLowerCase(query), toLowerCase(doc.metadata.tags[i]))})

\* keywordScore over the documents and queries of the model
scoreTable ==
    {[doc |-> name, query |-> query, score |-> keywordScore(KnowledgeDocs[name], query)] :
        name \in {n \in DOMAIN KnowledgeDocs : ~scoreThrows(KnowledgeDocs[n])},
        query \in SearchQueries}

RECURSIVE insertByScore_Unstable(_, _)
\* a sort that puts a document before the earlier ones of the same score
insertByScore_Unstable(sorted, item) ==
    IF sorted = <<>> THEN <<item>>
    ELSE IF Head(sorted).score > item.score
         THEN <<Head(sorted)>> \o insertByScore_Unstable(Tail(sorted), item)
         ELSE <<item>> \o sorted

RECURSIVE insertByScore(_, _)
\* one step of the stable sort of  sort((a, b) => b.score - a.score)
insertByScore(sorted, item) ==
    IF sorted = <<>> THEN <<item>>
    ELSE IF Head(sorted).score >= item.score
         THEN <<Head(sorted)>> \o insertByScore(Tail(sorted), item)
         ELSE <<item>> \o sorted

RECURSIVE sortByScore(_, _)
sortByScore(scored, n) ==
    IF n = 0 THEN <<>> ELSE insertByScore(sortByScore(scored, n - 1), scored[n])

\* Array.prototype.slice(0, k)
slice(s, k) ==
    LET end == IF k < 0 THEN (IF Len(s) + k < 0 THEN 0 ELSE Len(s) + k)
               ELSE (IF k > Len(s) THEN Len(s) ELSE k)
    IN SubSeq(s, 1, end)

\* what the call returns, or that it raised an error
simpleKeywordSearch(documents, query, k) ==
    IF \E i \in 1..Len(documents) : scoreThrows(KnowledgeDocs[documents[i]])
    THEN [threw |-> TRUE, items |-> <<>>]
    ELSE LET scoredDocs == [i \in 1..Len(documents) |->
                 [doc |-> documents[i],
                  score |-> (CHOOSE e \in scoreTable :
                                e.doc = documents[i] /\ e.query = query).score]]
             top == slice(sortByScore(scoredDocs, Len(scoredDocs)), k)
         IN [threw |-> FALSE, items |-> [i \in 1..Len(top) |-> top[i].doc]]

\* no HNSWLib index
nullStore == [built |-> FALSE, docs |-> <<>>]

\* new KnowledgeBase()
knowledgeBase == [documents |-> <<>>, vectorStore |-> nullStore, isInitialized |-> FALSE]

\* what reading and parsing the knowledge file can give
FileOutcomes == {"missing", "malformed", "documents", "emptyArray", "contentless"}

\* the outcomes in which JSON.parse gives an array
Parsed == {"documents", "emptyArray", "contentless"}

fileContent(outcome) ==
    CASE outcome = "documents" -> fileDocs
      [] outcome = "contentless" -> contentlessDocs
      [] OTHER -> <<>>

\* a load that empties the corpus when the file cannot be read or parsed
loadFromFile_ClearsOnError(this, outcome) ==
    [this EXCEPT !.documents = fileContent(outcome)]

\* loadFromFile: the corpus is replaced when the file parses, untouched otherwise
loadFromFile(this, outcome) ==
    IF outcome \in Parsed
    THEN [this EXCEPT !.documents = fileContent(outcome)]
    ELSE this

\* what loadFromFile returns
loadFromFileResult(this, outcome) ==
    IF outcome \in Parsed THEN fileContent(outcome) ELSE <<>>

addDocuments(this, newDocuments) ==
    [this EXCEPT !.documents = @ \o newDocuments, !.isInitialized = FALSE]

clearDocuments(this) == [this EXCEPT !.documents = <<>>, !.isInitialized = FALSE]

isVectorStoreInitialized(this) == this.isInitialized

createDefaultKnowledge(this) == addDocuments(this, defaultDocs)

\* what the four candidate paths of loadDefaultKnowledgeBase can hold
PathOutcomes ==
    {<<"missing", "missing", "missing", "missing">>,
     <<"documents", "missing", "missing", "missing">>,
     <<"missing", "malformed", "documents", "missing">>,
     <<"missing", "emptyArray", "missing", "missing">>}

RECURSIVE loadDefaultKnowledgeBase(_, _, _)
\* for (const path of possiblePaths): the first path that gives documents ends
\* the loop; when no path does, the built-in documents are added
loadDefaultKnowledgeBase(this, paths, i) ==
    IF i > Len(paths) THEN createDefaultKnowledge(this)
    ELSE IF Len(loadFromFileResult(this, paths[i])) > 0 THEN loadFromFile(this, paths[i])
    ELSE loadDefaultKnowledgeBase(loadFromFile(this, paths[i]), paths, i + 1)

RECURSIVE loadDefaultKnowledgeBaseResult(_, _, _)
\* what loadDefaultKnowledgeBase returns
loadDefaultKnowledgeBaseResult(this, paths, i) ==
    IF i > Len(paths) THEN defaultDocs
    ELSE IF Len(loadFromFileResult(this, paths[i])) > 0 THEN loadFromFileResult(this, paths[i])
    ELSE loadDefaultKnowledgeBaseResult(loadFromFile(this, paths[i]), paths, i + 1)

\* initVectorStore, after HNSWLib.fromDocuments over the documents it was given
\* has returned an index or raised an error
initVectorStoreEnd(this, docs, ok) ==
    IF ok
    THEN [this EXCEPT !.vectorStore = [built |-> TRUE, docs |-> docs], !.isInitialized = TRUE]
    ELSE [this EXCEPT !.isInitialized = FALSE]

\* the results vectorStore.similaritySearch(query, k) can give: k documents of
\* the index, all of them when the index holds fewer, in any order
similaritySearch(store, k) ==
    LET n == Len(store.docs)
        m == IF k < n THEN k ELSE n
    IN {[i \in 1..m |-> store.docs[f[i]]] :
           f \in {g \in [1..m -> 1..n] : \A a, b \in 1..m : g[a] = g[b] => a = b}}

\* no search awaits similaritySearch
noSearch == [pending |-> FALSE, store |-> nullStore, query |-> <<>>, k |-> 0]

\* searchSimilarDocuments takes the fallback at once when there is no index
searchUsesFallback(this) == ~this.isInitialized \/ ~this.vectorStore.built

(***************************************************************************)
(* config/modelConfig.ts and llmIntegration.ts: the model in use and its   *)
(* initialization up to the first call that waits for the network.         *)
(***************************************************************************)
modelConfigs ==
    [openai |-> [name |-> "OpenAI", useEmbeddings |-> TRUE],
     deepseek |-> [name |-> "DeepSeek", useEmbeddings |-> TRUE],
     anthropic |-> [name |-> "Anthropic", useEmbeddings |-> FALSE]]

defaultModel == "deepseek"

\* what the object literal modelConfigs inherits from Object.prototype and
\* modelConfigs[modelId] finds as well: under "constructor" the function
\* Object, whose name is "Object" and which has no property useEmbeddings
ObjectPrototype == [constructor |-> [name |-> "Object", useEmbeddings |-> FALSE]]

\* getModelConfig(modelId) is not null
hasModelConfig(modelId) == modelId \in DOMAIN modelConfigs \cup DOMAIN ObjectPrototype

\* modelConfigs[modelId] || null, for a modelId for which it is not null
getModelConfig(modelId) ==
    IF modelId \in DOMAIN modelConfigs THEN modelConfigs[modelId] ELSE ObjectPrototype[modelId]

\* the module state of llmIntegration.ts once loaded; llmModel is null or the
\* id of the model the ChatOpenAI instance was made for
llmIntegration ==
    [llmModel |-> "null", embeddings |-> FALSE, isEmbeddingsInitialized |-> FALSE,
     currentModelId |-> defaultModel]

setLLMProvider(l, modelId) ==
    IF hasModelConfig(modelId) THEN [l EXCEPT !.currentModelId = modelId] ELSE l

\* initializeLLM(modelId) up to  await knowledgeBase.initVectorStore  reaching
\* HNSWLib: it threw, it returned, or it waits for the index (build)
initializeLLM(l, base, apiKey, modelId, paths) ==
    IF modelId # "" /\ ~hasModelConfig(modelId)
    THEN [threw |-> TRUE, llm |-> l, kb |-> base, build |-> FALSE]
    ELSE LET switched == IF modelId # "" THEN setLLMProvider(l, modelId) ELSE l
             withModel == [switched EXCEPT !.llmModel = switched.currentModelId]
             loaded == loadDefaultKnowledgeBase(base, paths, 1)
         IN IF ~apiKey
            THEN [threw |-> TRUE, llm |-> switched, kb |-> base, build |-> FALSE]
            ELSE IF ~getModelConfig(switched.currentModelId).useEmbeddings
            THEN [threw |-> FALSE, kb |-> base, build |-> FALSE,
                  llm |-> [withModel EXCEPT !.isEmbeddingsInitialized = FALSE]]
            ELSE IF Len(loaded.documents) = 0
            THEN [threw |-> FALSE, kb |-> loaded, build |-> FALSE,
                  llm |-> [withModel EXCEPT !.embeddings = TRUE,
                                            !.isEmbeddingsInitialized = FALSE]]
            ELSE [threw |-> FALSE, kb |-> loaded, build |-> TRUE,
                  llm |-> [withModel EXCEPT !.embeddings = TRUE]]

\* getCurrentProviderConfig(): the configuration of the current id
getCurrentProviderConfig(l) == getModelConfig(l.currentModelId)

\* the values of the llmProvider setting and of the provider of a switch request
Providers == {"openai", "deepseek", "anthropic", "unknown"}

\* no operation of llmIntegration.ts awaits the knowledge base or the model
noRequest == [op |-> "none", stage |-> "none", model |-> "null", docs |-> <<>>]

\* the uris of the model and the documents opened under them
Uris == {"file:///a.js", "file:///b.js"}

closed == [shape |-> "closed", word |-> <<>>, gap1 |-> <<>>, gap2 |-> <<>>, arg |-> <<>>]

OpenedDocs == {d \in DocInputs : d.word \in {code.XSS01, code.DATA02}}

\* the state after construction
Constructed ==
    [document |-> CHOOSE d \in DocInputs : d.word = code.XSS01,
     lastRegistered |-> [id \in RuleIds |-> getRule(securityRuleRegistry, id)],
     server |-> [phase |-> "created", openaiKey |-> FALSE, isLLMInitialized |-> FALSE,
                 configPending |-> FALSE],
     textDocuments |-> [uri \in Uris |-> closed],
     \* no completion request is being served, the model gave no answer yet
     completion |-> [stage |-> "idle", lines |-> <<>>,
                     position |-> [line |-> 0, character |-> 0],
                     context |-> <<>>, currentLine |-> <<>>, response |-> <<>>],
     \* GhostTextProvider: lastPosition and debounceTimer are null (0), no call
     \* of provideInlineCompletionItems was made
     ghost |-> [isActive |-> TRUE, lastPosition |-> 0, debounceTimer |-> 0,
                calls |-> <<>>],
     \* SecuritySidebarProvider: no view, no issues, score 100, no timer set
     \* and nothing posted to the webview; updates counts the calls of
     \* updateIssues, and seen tells whether the latest of them found a view
     sidebar |-> [view |-> FALSE, issues |-> <<>>, score |-> 100, timers |-> <<>>,
                  posted |-> [issues |-> <<>>, vulnerabilityNumber |-> <<>>,
                              score |-> -1],
                  updates |-> 0, seen |-> FALSE]]

(***************************************************************************)
(* The knowledge base as a state machine: its methods are called in any    *)
(* order, and the calls that await the embedding backend complete in any   *)
(* order, with an index, with results or with an error.                    *)
(***************************************************************************)
MaxDocs == 3

MaxBuilds == 1

MaxK == 2

rulesVars == <<document, rules, lastRegistered, lastRun>>

kbVars == <<kb, builds, search>>

serverVars == <<llm, server, textDocuments>>

scoreVars == <<issues, added, score>>

otherVars == <<rulesVars, scoreVars, request, completion, ghost, sidebar>>

NoReply ==
    [op |-> "none", ok |-> TRUE, threw |-> FALSE, items |-> <<>>, k |-> 0, uri |-> "",
     kind |-> "", query |-> <<>>, model |-> "null"]

Reply(op, ok, items, k) == [NoReply EXCEPT !.op = op, !.ok = ok, !.items = items, !.k = k]

\* the reply of a call that returns a list or raises an error
ReplyOf(op, result, k) ==
    [Reply(op, ~result.threw, result.items, k) EXCEPT !.threw = result.threw]

Remove(s, i) == SubSeq(s, 1, i - 1) \o SubSeq(s, i + 1, Len(s))

\* knowledgeBase.loadFromFile(path)
LoadFromFile(outcome) ==
    /\ kb' = loadFromFile(kb, outcome)
    /\ reply' = Reply("loadFromFile", TRUE, loadFromFileResult(kb, outcome), 0)
    /\ UNCHANGED <<builds, search, serverVars, otherVars>>

\* knowledgeBase.addDocuments(newDocuments)
AddDocuments(newDocuments) ==
    /\ Len(kb.documents) + Len(newDocuments) <= MaxDocs
    /\ kb' = addDocuments(kb, newDocuments)
    /\ reply' = NoReply
    /\ UNCHANGED <<builds, search, serverVars, otherVars>>

\* knowledgeBase.clearDocuments()
ClearDocuments ==
    /\ kb' = clearDocuments(kb)
    /\ reply' = NoReply
    /\ UNCHANGED <<builds, search, serverVars, otherVars>>

\* loadDefaultKnowledgeBase()
LoadDefaultKnowledgeBase(paths) ==
    /\ kb' = loadDefaultKnowledgeBase(kb, paths, 1)
    /\ reply' = Reply("loadDefaultKnowledgeBase", TRUE,
                      loadDefaultKnowledgeBaseResult(kb, paths, 1), 0)
    /\ UNCHANGED <<builds, search, serverVars, otherVars>>

\* knowledgeBase.initVectorStore(embeddings), up to  await HNSWLib.fromDocuments
InitVectorStoreBegin(caller) ==
    IF Len(kb.documents) = 0
    THEN /\ reply' = Reply("initVectorStore", FALSE, <<>>, 0)
         /\ UNCHANGED <<kb, builds, search, serverVars, otherVars>>
    ELSE /\ Len(builds) < MaxBuilds
         /\ builds' = Append(builds, [caller |-> caller, docs |-> kb.documents])
         /\ reply' = NoReply
         /\ UNCHANGED <<kb, search, serverVars, otherVars>>

\* an initialization in which the embeddings are a hard dependency: a build
\* that fails takes the chat model away and fails the call
InitVectorStoreEnd_HardDependency(i, ok) ==
    /\ kb' = initVectorStoreEnd(kb, builds[i].docs, ok)
    /\ builds' = Remove(builds, i)
    /\ llm' = [llm EXCEPT !.isEmbeddingsInitialized = ok,
                          !.llmModel = IF ok THEN @ ELSE "null"]
    /\ server' = server
    /\ reply' = Reply(builds[i].caller, ok, <<>>, 0)
    /\ UNCHANGED <<search, textDocuments, otherVars>>

\* HNSWLib.fromDocuments returns an index or raises an error
\* and the caller of initVectorStore goes on: initializeLLM records the outcome
\* and returns to onInitialized or to the switchLLMProvider handler,
\* importCustomVectorStore records it and returns it
InitVectorStoreEnd(i, ok) ==
    /\ kb' = initVectorStoreEnd(kb, builds[i].docs, ok)
    /\ builds' = Remove(builds, i)
    /\ llm' = IF builds[i].caller = "api" THEN llm
              ELSE [llm EXCEPT !.isEmbeddingsInitialized = ok]
    /\ server' = IF builds[i].caller = "onInitialized"
                 THEN [server EXCEPT !.isLLMInitialized = TRUE]
                 ELSE server
    /\ reply' = CASE builds[i].caller = "api" -> Reply("initVectorStore", ok, <<>>, 0)
                  [] builds[i].caller = "onInitialized" -> NoReply
                  [] builds[i].caller = "switchLLMProvider" ->
                       Reply("switchLLMProvider", TRUE, <<>>, 0)
                  [] builds[i].caller = "importCustomKnowledge" ->
                       Reply("importCustomKnowledge", ok, <<>>, 0)
    /\ UNCHANGED <<search, textDocuments, otherVars>>

\* knowledgeBase.searchSimilarDocuments(query, k), up to  await similaritySearch.
\* A search changes nothing in the knowledge base, so the search in flight do
\* not affect each other: the model follows one of them.
SearchBegin(query, k) ==
    IF searchUsesFallback(kb)
    THEN /\ reply' = [ReplyOf("search", simpleKeywordSearch(kb.documents, query, k), k)
                        EXCEPT !.query = query]
         /\ UNCHANGED <<kb, builds, search, serverVars, otherVars>>
    ELSE /\ ~search.pending
         /\ search' = [pending |-> TRUE, store |-> kb.vectorStore, query |-> query, k |-> k]
         /\ reply' = NoReply
         /\ UNCHANGED <<kb, builds, serverVars, otherVars>>

\* similaritySearch returns its results
SearchEnd(results) ==
    /\ search.pending
    /\ results \in similaritySearch(search.store, search.k)
    /\ search' = noSearch
    /\ reply' = [Reply("search", TRUE, results, search.k) EXCEPT !.query = search.query]
    /\ UNCHANGED <<kb, builds, serverVars, otherVars>>

\* similaritySearch raises an error: the catch block takes the fallback
SearchFails ==
    /\ search.pending
    /\ search' = noSearch
    /\ reply' = [ReplyOf("search",
                          simpleKeywordSearch(kb.documents, search.query, search.k),
                          search.k) EXCEPT !.query = search.query]
    /\ UNCHANGED <<kb, builds, serverVars, otherVars>>

NextKB ==
    \/ \E outcome \in FileOutcomes : LoadFromFile(outcome)
    \/ AddDocuments(customDocs)
    \/ ClearDocuments
    \/ \E paths \in PathOutcomes :
          /\ Len(loadDefaultKnowledgeBase(kb, paths, 1).documents) <= MaxDocs
          /\ LoadDefaultKnowledgeBase(paths)
    \/ InitVectorStoreBegin("api")
    \/ \E i \in 1..Len(builds), ok \in BOOLEAN : InitVectorStoreEnd(i, ok)
    \/ \E query \in Queries, k \in 0..MaxK : SearchBegin(query, k)
    \/ \E results \in similaritySearch(search.store, search.k) : SearchEnd(results)
    \/ SearchFails

\* the knowledge base without an embedding backend: no index is ever built,
\* so every search is answered by simpleKeywordSearch
NextFallback ==
    \/ \E outcome \in FileOutcomes : LoadFromFile(outcome)
    \/ \E i \in 1..Len(defaultDocs \o customDocs) :
          AddDocuments(<<(defaultDocs \o customDocs)[i]>>)
    \/ ClearDocuments
    \/ \E paths \in PathOutcomes :
          Len(kb.documents) <= MaxDocs /\ LoadDefaultKnowledgeBase(paths)
    \/ \E query \in SearchQueries, k \in 0..MaxK : SearchBegin(query, k)

(***************************************************************************)
(* The language server as a state machine: the handlers of server.ts in    *)
(* the order the client and the network drive them.                        *)
(***************************************************************************)
\* connection.onInitialize: the key of the initialization options is used when
\* the environment has none
OnInitialize(settingsKey) ==
    /\ server.phase = "created"
    /\ server' = [server EXCEPT !.phase = "initialize",
                                !.openaiKey = server.openaiKey \/ settingsKey]
    /\ reply' = NoReply
    /\ UNCHANGED <<kbVars, llm, textDocuments, otherVars>>

\* connection.onInitialized, up to  await connection.workspace.getConfiguration
OnInitialized ==
    /\ server.phase = "initialize"
    /\ server' = [server EXCEPT !.phase = "initialized",
                                !.configPending = server.openaiKey]
    /\ reply' = NoReply
    /\ UNCHANGED <<kbVars, llm, textDocuments, otherVars>>

\* the builds a call to initializeLLM leaves in flight
BuildsAfter(result, caller) ==
    IF result.build THEN Append(builds, [caller |-> caller, docs |-> result.kb.documents])
    ELSE builds

\* connection.onInitialized, from the answer to getConfiguration on: the
\* configured provider or the default model is initialized; a rejected request
\* ends in the catch block like an initialization that throws
ConfigurationArrives(llmProvider, paths) ==
    LET preferredModel == IF llmProvider # "" THEN llmProvider ELSE defaultModel
        result == IF llmProvider = "rejected"
                  THEN [threw |-> TRUE, llm |-> llm, kb |-> kb, build |-> FALSE]
                  ELSE initializeLLM(llm, kb, server.openaiKey, preferredModel, paths)
    IN /\ server.configPending
       /\ Len(result.kb.documents) <= MaxDocs
       /\ result.build => Len(builds) < MaxBuilds
       /\ llm' = result.llm
       /\ kb' = result.kb
       /\ builds' = BuildsAfter(result, "onInitialized")
       /\ server' = [server EXCEPT !.configPending = FALSE,
                                   !.isLLMInitialized = @ \/ (~result.threw /\ ~result.build)]
       /\ reply' = NoReply
       /\ UNCHANGED <<search, textDocuments, otherVars>>

\* the handler of security-assistant.switchLLMProvider
SwitchLLMProvider(provider, paths) ==
    LET result == initializeLLM(setLLMProvider(llm, provider), kb, server.openaiKey, "", paths)
    IN /\ server.phase = "initialized"
       /\ IF ~hasModelConfig(provider)
          THEN /\ reply' = Reply("switchLLMProvider", FALSE, <<>>, 0)
               /\ UNCHANGED <<kbVars, llm>>
          ELSE /\ Len(result.kb.documents) <= MaxDocs
               /\ result.build => Len(builds) < MaxBuilds
               /\ llm' = result.llm
               /\ kb' = result.kb
               /\ builds' = BuildsAfter(result, "switchLLMProvider")
               /\ reply' = IF result.build THEN NoReply
                           ELSE Reply("switchLLMProvider", ~result.threw, <<>>, 0)
               /\ UNCHANGED search
       /\ UNCHANGED <<server, textDocuments, otherVars>>

\* the handler of security-assistant.importCustomKnowledge, which calls
\* importCustomVectorStore
ImportCustomKnowledge(newDocuments) ==
    /\ server.phase = "initialized"
    /\ IF ~llm.embeddings
       THEN /\ reply' = Reply("importCustomKnowledge", FALSE, <<>>, 0)
            /\ UNCHANGED <<kbVars, llm>>
       ELSE /\ Len(kb.documents) + Len(newDocuments) <= MaxDocs
            /\ Len(builds) < MaxBuilds
            /\ kb' = addDocuments(kb, newDocuments)
            /\ builds' = Append(builds, [caller |-> "importCustomKnowledge",
                                         docs |-> kb'.documents])
            /\ reply' = NoReply
            /\ UNCHANGED <<search, llm>>
    /\ UNCHANGED <<server, textDocuments, otherVars>>

\* the findings of the built-in rules on the documents that are opened,
\* computed once for each of them
builtinFindings ==
    {[document |-> d,
      diagnostics |-> runSecurityRules(securityRuleRegistry, Render(d)).diagnostics] :
        d \in OpenedDocs}

\* const securityDiagnostics = await runSecurityRules(document)
securityDiagnostics(d) ==
    IF rules = securityRuleRegistry /\ d \in OpenedDocs
    THEN (CHOOSE found \in builtinFindings : found.document = d).diagnostics
    ELSE runSecurityRules(rules, Render(d)).diagnostics

\* textDocument/didOpen
DidOpen(uri, d) ==
    /\ textDocuments[uri] = closed
    /\ textDocuments' = [textDocuments EXCEPT ![uri] = d]
    /\ reply' = NoReply
    /\ UNCHANGED <<kbVars, llm, server, otherVars>>

\* textDocument/didClose
DidClose(uri) ==
    /\ textDocuments[uri] # closed
    /\ textDocuments' = [textDocuments EXCEPT ![uri] = closed]
    /\ reply' = NoReply
    /\ UNCHANGED <<kbVars, llm, server, otherVars>>

\* connection.languages.diagnostics.on
Diagnostics_WhenLLMReady(uri) ==
    /\ reply' = [Reply("diagnostics", TRUE,
                       IF textDocuments[uri] # closed /\ server.isLLMInitialized
                       THEN securityDiagnostics(textDocuments[uri])
                       ELSE <<>>, 0) EXCEPT !.uri = uri, !.kind = "full"]
    /\ UNCHANGED <<kbVars, serverVars, otherVars>>

Diagnostics(uri) ==
    /\ reply' = [Reply("diagnostics", TRUE,
                       IF textDocuments[uri] # closed
                       THEN securityDiagnostics(textDocuments[uri])
                       ELSE <<>>, 0) EXCEPT !.uri = uri, !.kind = "full"]
    /\ UNCHANGED <<kbVars, serverVars, otherVars>>

NextServer ==
    \/ \E settingsKey \in BOOLEAN : OnInitialize(settingsKey)
    \/ OnInitialized
    \/ \E llmProvider \in Providers \cup {"", "rejected"}, paths \in PathOutcomes :
          ConfigurationArrives(llmProvider, paths)
    \/ \E provider \in Providers, paths \in PathOutcomes : SwitchLLMProvider(provider, paths)
    \/ ImportCustomKnowledge(customDocs)
    \/ \E i \in 1..Len(builds), ok \in BOOLEAN : InitVectorStoreEnd(i, ok)
    \/ \E uri \in Uris, d \in OpenedDocs : DidOpen(uri, d)
    \/ \E uri \in Uris : DidClose(uri)
    \/ \E uri \in Uris : Diagnostics(uri)

\* the server as far as the LLM subsystem goes: the handlers that initialize
\* it, switch the provider and import knowledge, with no document opened
NextLLM ==
    \/ \E settingsKey \in BOOLEAN : OnInitialize(settingsKey)
    \/ OnInitialized
    \/ \E llmProvider \in Providers \cup {"", "rejected"}, paths \in PathOutcomes :
          ConfigurationArrives(llmProvider, paths)
    \/ \E provider \in Providers \cup DOMAIN ObjectPrototype, paths \in PathOutcomes :
          SwitchLLMProvider(provider, paths)
    \/ \E newDocuments \in {customDocs, <<customDocs[1]>>} :
          ImportCustomKnowledge(newDocuments)
    \/ \E i \in 1..Len(builds), ok \in BOOLEAN : InitVectorStoreEnd(i, ok)

(***************************************************************************)
(* The operations of llmIntegration.ts that use the chat model.  They are  *)
(* called at any time; the calls that await the knowledge base or the      *)
(* model complete in any order with the handlers of the server.  An        *)
(* operation changes nothing in llmIntegration.ts or in the knowledge      *)
(* base, so the operations in flight do not affect each other: the model   *)
(* follows one of them.                                                    *)
(***************************************************************************)
\* the code and the selected text the operations are called with
Codes == {kbText.sqlInjectionRisk}

\* what an operation returns: the text for a model that is not initialized
\* ("notInitialized"), the text of its catch block ("failed"), the empty list
\* for a prefix that is too short ("tooShort"), or what the model answered
LLMReply(op, kind, docs, model) ==
    [NoReply EXCEPT !.op = op, !.ok = kind = "answer", !.kind = kind, !.items = docs,
                    !.model = model]

\* const chain = RunnableSequence.from([promptTemplate, llmModel, ...]);
\* await chain.invoke(...): the request is made to the model that llmModel
\* holds now, with the knowledge documents of the prompt
InvokeChain(op, docs) ==
    /\ request' = [op |-> op, stage |-> "model", model |-> llm.llmModel, docs |-> docs]
    /\ reply' = NoReply

\* await knowledgeBase.searchSimilarDocuments(query, k) inside an operation
\* whose catch block returns (getSecuritySuggestion) or which goes on without
\* knowledge (analyzeCodeSecurity) when the search raises an error
Retrieve(op, query, k) ==
    IF searchUsesFallback(kb)
    THEN LET found == simpleKeywordSearch(kb.documents, query, k)
         IN /\ IF ~found.threw THEN InvokeChain(op, found.items)
               ELSE IF op = "analyzeCodeSecurity" THEN InvokeChain(op, <<>>)
               ELSE /\ reply' = LLMReply(op, "failed", <<>>, "null")
                    /\ UNCHANGED request
            /\ UNCHANGED search
    ELSE /\ search' = [pending |-> TRUE, store |-> kb.vectorStore, query |-> query, k |-> k]
         /\ request' = [noRequest EXCEPT !.op = op, !.stage = "search"]
         /\ reply' = NoReply

\* an operation that does not look at llmModel before it goes on
GetSecuritySuggestion_Unguarded(snippet) ==
    /\ request = noRequest
    /\ ~search.pending
    /\ InvokeChain("getSecuritySuggestion", kb.documents)
    /\ UNCHANGED <<kbVars, serverVars, rulesVars, scoreVars, completion, ghost, sidebar>>

\* getSecuritySuggestion(code, context)
GetSecuritySuggestion(snippet) ==
    /\ request = noRequest
    /\ ~search.pending
    /\ IF llm.llmModel = "null"
       THEN /\ reply' = LLMReply("getSecuritySuggestion", "notInitialized", <<>>, "null")
            /\ UNCHANGED <<search, request>>
       ELSE IF llm.isEmbeddingsInitialized
            THEN Retrieve("getSecuritySuggestion", snippet, 2)
            ELSE /\ InvokeChain("getSecuritySuggestion", kb.documents)
                 /\ UNCHANGED search
    /\ UNCHANGED <<kb, builds, serverVars, rulesVars, scoreVars, completion, ghost, sidebar>>

\* analyzeCodeSecurity(document, range)
AnalyzeCodeSecurity(text) ==
    /\ request = noRequest
    /\ ~search.pending
    /\ IF llm.llmModel = "null"
       THEN /\ reply' = LLMReply("analyzeCodeSecurity", "notInitialized", <<>>, "null")
            /\ UNCHANGED <<search, request>>
       ELSE IF llm.isEmbeddingsInitialized
            THEN Retrieve("analyzeCodeSecurity", text, 3)
            ELSE /\ InvokeChain("analyzeCodeSecurity", <<>>)
                 /\ UNCHANGED search
    /\ UNCHANGED <<kb, builds, serverVars, rulesVars, scoreVars, completion, ghost, sidebar>>

\* generateCodeCompletion(document, position), for a prefix that is or is not
\* shorter than 3 characters once trimmed
GenerateCodeCompletion(tooShort) ==
    /\ request = noRequest
    /\ IF llm.llmModel = "null"
       THEN /\ reply' = LLMReply("generateCodeCompletion", "notInitialized", <<>>, "null")
            /\ UNCHANGED request
       ELSE IF tooShort
            THEN /\ reply' = LLMReply("generateCodeCompletion", "tooShort", <<>>, "null")
                 /\ UNCHANGED request
            ELSE InvokeChain("generateCodeCompletion", <<>>)
    /\ UNCHANGED <<kbVars, serverVars, rulesVars, scoreVars, completion, ghost, sidebar>>

\* vectorStore.similaritySearch returns its results to the operation
RetrievalReturns(results) ==
    /\ request.stage = "search"
    /\ results \in similaritySearch(search.store, search.k)
    /\ search' = noSearch
    /\ InvokeChain(request.op, results)
    /\ UNCHANGED <<kb, builds, serverVars, rulesVars, scoreVars, completion, ghost, sidebar>>

\* vectorStore.similaritySearch raises an error: searchSimilarDocuments takes
\* the keyword fallback over the documents the knowledge base holds now
RetrievalFails ==
    LET found == simpleKeywordSearch(kb.documents, search.query, search.k)
    IN /\ request.stage = "search"
       /\ search' = noSearch
       /\ IF ~found.threw THEN InvokeChain(request.op, found.items)
          ELSE IF request.op = "analyzeCodeSecurity" THEN InvokeChain(request.op, <<>>)
          ELSE /\ reply' = LLMReply(request.op, "failed", <<>>, "null")
               /\ request' = noRequest
       /\ UNCHANGED <<kb, builds, serverVars, rulesVars, scoreVars, completion, ghost, sidebar>>

\* a chain that looks llmModel up when the answer is due, so that a switch
\* made in between redirects the request
ModelAnswers_CurrentModel(ok) ==
    /\ request.stage = "model"
    /\ request' = noRequest
    /\ reply' = LLMReply(request.op, IF ok THEN "answer" ELSE "failed", request.docs,
                         llm.llmModel)
    /\ UNCHANGED <<kbVars, serverVars, rulesVars, scoreVars, completion, ghost, sidebar>>

\* chain.invoke returns the answer of the model or raises an error, which the
\* catch block of the operation turns into its text or its empty list
ModelAnswers(ok) ==
    /\ request.stage = "model"
    /\ request' = noRequest
    /\ reply' = LLMReply(request.op, IF ok THEN "answer" ELSE "failed", request.docs,
                         request.model)
    /\ UNCHANGED <<kbVars, serverVars, rulesVars, scoreVars, completion, ghost, sidebar>>

\* the server with the operations of llmIntegration.ts; the knowledge file is
\* missing, holds documents, or holds an item without pageContent
NextAssistant ==
    \/ \E settingsKey \in BOOLEAN : OnInitialize(settingsKey)
    \/ OnInitialized
    \/ \E llmProvider \in {"", "anthropic", "rejected"},
          paths \in {p \in PathOutcomes : p[2] = "missing"}
                      \cup {<<"contentless", "missing", "missing", "missing">>} :
          ConfigurationArrives(llmProvider, paths)
    \/ \E provider \in {"openai", "anthropic", "unknown"},
          paths \in {p \in PathOutcomes : p[2] = "missing"} :
          SwitchLLMProvider(provider, paths)
    \/ \E i \in 1..Len(builds), ok \in BOOLEAN : InitVectorStoreEnd(i, ok)
    \/ \E snippet \in Codes : GetSecuritySuggestion(snippet)
    \/ \E text \in Codes : AnalyzeCodeSecurity(text)
    \/ \E tooShort \in BOOLEAN : GenerateCodeCompletion(tooShort)
    \/ \E results \in similaritySearch(search.store, search.k) : RetrievalReturns(results)
    \/ RetrievalFails
    \/ \E ok \in BOOLEAN : ModelAnswers(ok)

(***************************************************************************)
(* The rule engine as a state machine: a document is created, rules are    *)
(* registered at run time, runSecurityRules is called on the document.     *)
(***************************************************************************)
\* securityRuleRegistry.registerRule(rule)
RegisterRule(rule) ==
    /\ rules' = registerRule(rules, rule)
    /\ lastRegistered' = [lastRegistered EXCEPT ![rule.id] = rule]
    /\ lastRun' = NotRun
    /\ UNCHANGED <<document, kbVars, serverVars, request, reply, scoreVars, completion, ghost, sidebar>>

\* await runSecurityRules(document)
RunSecurityRules ==
    /\ lastRun' = runSecurityRules(rules, Render(document))
    /\ UNCHANGED <<document, rules, lastRegistered, kbVars, serverVars, request, reply,
                   scoreVars, completion, ghost, sidebar>>

NextRules ==
    \/ \E rule \in RuntimeRules : RegisterRule(rule)
    \/ RunSecurityRules

(***************************************************************************)
(* The score as a state machine: an issue list, issues added one by one.   *)
(***************************************************************************)
MaxPerSeverity == 6

MaxAdded == 1

Issue(severity) == [message |-> "finding", severity |-> severity, line |-> 1, column |-> 1]

Repeat(x, n) == [i \in 1..n |-> x]

IssueLists ==
    {Repeat(Issue("critical"), c) \o Repeat(Issue("high"), h)
       \o Repeat(Issue("medium"), m) \o Repeat(Issue("low"), l) :
         <<c, h, m, l>> \in (0..MaxPerSeverity) \X (0..MaxPerSeverity)
                             \X (0..MaxPerSeverity) \X (0..MaxPerSeverity)}

\* one more finding arrives and the score is computed again
AddIssue(severity) ==
    /\ added < MaxAdded
    /\ issues' = Append(issues, Issue(severity))
    /\ added' = added + 1
    /\ score' = calculateSecurityScore(issues')
    /\ UNCHANGED <<rulesVars, kbVars, serverVars, request, reply, completion, ghost,
                   sidebar>>

NextScore == \E i \in DOMAIN Severities : AddIssue(Severities[i])

(***************************************************************************)
(* Code completion: generateCodeCompletion of llmIntegration.ts behind the *)
(* onCompletion and onCompletionResolve handlers of server.ts.             *)
(***************************************************************************)
MaxLines == 12

MaxResponseLines == 4

\* lines of an answer of the model
completionText ==
    [evalPassword |-> <<"e", "v", "a", "l", "(", "p", "a", "s", "s", "w", "o", "r", "d", ")">>,
     innerHtml |-> <<"e", "l", ".", "i", "n", "n", "e", "r", "H", "T", "M", "L", " ", "=", " ", "x", ";">>,
     returnX |-> <<"r", "e", "t", "u", "r", "n", " ", "x", ";">>,
     selectLower |-> <<"d", "b", ".", "r", "u", "n", "(", "'", "s", "e", "l", "e", "c", "t", " ", "1", "'",
                     ")", ";">>,
     blank |-> <<" ", " ">>,
     empty |-> <<>>]

\* the entries of securityIssues, in the order of the array: their issue, their
\* icon and the alternatives of their pattern (no flags: case-sensitive)
securityIssues ==
    LET Lit(s) == [k |-> "lit", s |-> s]
        Spaces == [k |-> "spaces", s |-> <<>>]
    IN <<
      \* /exec\s*\(|eval\s*\(|Function\s*\(/
      [issue |-> "codeInjection", icon |-> "warning",
       pattern |-> << <<Lit(<<"e", "x", "e", "c">>), Spaces, Lit(<<"(">>)>>,
                     <<Lit(<<"e", "v", "a", "l">>), Spaces, Lit(<<"(">>)>>,
                     <<Lit(<<"F", "u", "n", "c", "t", "i", "o", "n">>), Spaces, Lit(<<"(">>)>> >>],
      \* /\.html\s*\(|innerHTML|outerHTML/
      [issue |-> "xss", icon |-> "lock",
       pattern |-> << <<Lit(<<".", "h", "t", "m", "l">>), Spaces, Lit(<<"(">>)>>,
                     <<Lit(<<"i", "n", "n", "e", "r", "H", "T", "M", "L">>)>>,
                     <<Lit(<<"o", "u", "t", "e", "r", "H", "T", "M", "L">>)>> >>],
      \* /document\.write|document\.writeln/
      [issue |-> "xss", icon |-> "lock",
       pattern |-> << <<Lit(<<"d", "o", "c", "u", "m", "e", "n", "t", ".", "w", "r", "i", "t", "e">>)>>,
                     <<Lit(<<"d", "o", "c", "u", "m", "e", "n", "t", ".", "w", "r", "i", "t", "e", "l", "n">>)>> >>],
      \* /SELECT|INSERT|UPDATE|DELETE|DROP|CREATE|ALTER/
      [issue |-> "sqlInjection", icon |-> "shield",
       pattern |-> << <<Lit(<<"S", "E", "L", "E", "C", "T">>)>>,
                     <<Lit(<<"I", "N", "S", "E", "R", "T">>)>>,
                     <<Lit(<<"U", "P", "D", "A", "T", "E">>)>>,
                     <<Lit(<<"D", "E", "L", "E", "T", "E">>)>>,
                     <<Lit(<<"D", "R", "O", "P">>)>>,
                     <<Lit(<<"C", "R", "E", "A", "T", "E">>)>>,
                     <<Lit(<<"A", "L", "T", "E", "R">>)>> >>],
      \* /password|secret|token|key|credential/
      [issue |-> "sensitiveData", icon |-> "key",
       pattern |-> << <<Lit(<<"p", "a", "s", "s", "w", "o", "r", "d">>)>>,
                     <<Lit(<<"s", "e", "c", "r", "e", "t">>)>>,
                     <<Lit(<<"t", "o", "k", "e", "n">>)>>,
                     <<Lit(<<"k", "e", "y">>)>>,
                     <<Lit(<<"c", "r", "e", "d", "e", "n", "t", "i", "a", "l">>)>> >>],
      \* /http:|https:/
      [issue |-> "networkRequest", icon |-> "globe",
       pattern |-> << <<Lit(<<"h", "t", "t", "p", ":">>)>>,
                     <<Lit(<<"h", "t", "t", "p", "s", ":">>)>> >>],
      \* /\.replace\(|\.replaceAll\(/
      [issue |-> "stringReplace", icon |-> "memo",
       pattern |-> << <<Lit(<<".", "r", "e", "p", "l", "a", "c", "e", "(">>)>>,
                     <<Lit(<<".", "r", "e", "p", "l", "a", "c", "e", "A", "l", "l", "(">>)>> >>],
      \* /\.match\(|\.test\(|\.exec\(/
      [issue |-> "regularExpression", icon |-> "magnifier",
       pattern |-> << <<Lit(<<".", "m", "a", "t", "c", "h", "(">>)>>,
                     <<Lit(<<".", "t", "e", "s", "t", "(">>)>>,
                     <<Lit(<<".", "e", "x", "e", "c", "(">>)>> >>],
      \* /\.parse\(|JSON\.parse/
      [issue |-> "jsonParse", icon |-> "clipboard",
       pattern |-> << <<Lit(<<".", "p", "a", "r", "s", "e", "(">>)>>,
                     <<Lit(<<"J", "S", "O", "N", ".", "p", "a", "r", "s", "e">>)>> >>],
      \* /encodeURI|encodeURIComponent|escape/
      [issue |-> "urlEncoding", icon |-> "link",
       pattern |-> << <<Lit(<<"e", "n", "c", "o", "d", "e", "U", "R", "I">>)>>,
                     <<Lit(<<"e", "n", "c", "o", "d", "e", "U", "R", "I", "C", "o", "m", "p", "o", "n", "e", "n", "t">>)>>,
                     <<Lit(<<"e", "s", "c", "a", "p", "e">>)>> >>],
      \* /\.trim\(|\.toLowerCase\(|\.toUpperCase\(/
      [issue |-> "stringHandling", icon |-> "scissors",
       pattern |-> << <<Lit(<<".", "t", "r", "i", "m", "(">>)>>,
                     <<Lit(<<".", "t", "o", "L", "o", "w", "e", "r", "C", "a", "s", "e", "(">>)>>,
                     <<Lit(<<".", "t", "o", "U", "p", "p", "e", "r", "C", "a", "s", "e", "(">>)>> >>],
      \* /try\s*{|catch\s*\(/
      [issue |-> "errorHandling", icon |-> "wrench",
       pattern |-> << <<Lit(<<"t", "r", "y">>), Spaces, Lit(<<"{">>)>>,
                     <<Lit(<<"c", "a", "t", "c", "h">>), Spaces, Lit(<<"(">>)>> >>] >>

\* String.prototype.trim
trim(s) ==
    LET keep == {i \in 1..Len(s) : s[i] \notin chars.space}
    IN IF keep = {} THEN <<>> ELSE SubSeq(s, Min(keep), Max(keep))

\* s.split('\n')
splitLines(s) ==
    LET breaks == {i \in 1..Len(s) : s[i] = "\n"}
        ends == breaks \cup {Len(s) + 1}
        StartOf(e) == Max({b \in breaks \cup {0} : b < e}) + 1
        Nth(n) == CHOOSE e \in ends : Cardinality({b \in ends : b < e}) = n - 1
    IN [n \in 1..Cardinality(ends) |-> SubSeq(s, StartOf(Nth(n)), Nth(n) - 1)]

RECURSIVE join(_)
\* lines.join('\n')
join(lines) ==
    IF lines = <<>> THEN <<>>
    ELSE IF Len(lines) = 1 THEN lines[1]
    ELSE lines[1] \o <<"\n">> \o join(Tail(lines))

\* pattern.test(completion), for a pattern without flags
test(pattern, text) ==
    LET ExactAt(s, pos) ==
            /\ pos + Len(s) <= Len(text)
            /\ \A i \in 1..Len(s) : text[pos + i] = s[i]
        \* the offsets a part can end at when it starts at one of the offsets from
        After(part, from) ==
            IF part.k = "lit"
            THEN {p + Len(part.s) : p \in {q \in from : ExactAt(part.s, q)}}
            ELSE UNION {p..(p + RunLen("space", text, p, -1)) : p \in from}
        Ends(alt) ==
            LET RECURSIVE Go(_, _)
                Go(i, from) == IF i > Len(alt) THEN from ELSE Go(i + 1, After(alt[i], from))
            IN Go(1, 0..Len(text))
    IN \E a \in 1..Len(pattern) : Ends(pattern[a]) # {}

\* for (const { pattern, issue, icon } of securityIssues) ... break: the entry
\* at which the loop stops (0 when it runs to the end), for each line the model
\* answers with
issueTable ==
    LET RECURSIVE firstIssue(_, _)
        firstIssue(candidate, i) ==
            IF i > Len(securityIssues) THEN 0
            ELSE IF test(securityIssues[i].pattern, candidate) THEN i
            ELSE firstIssue(candidate, i + 1)
    IN {[candidate |-> completionText[name], at |-> firstIssue(completionText[name], 1)] :
           name \in DOMAIN completionText}

\* response.split('\n').filter(line => line.trim().length > 0).slice(0, 3).map(...)
\* with the item that the callback of map builds
parseCompletions(response) ==
    LET kept == SelectSeq(splitLines(response), LAMBDA line : Len(trim(line)) > 0)
        first == slice(kept, 3)
        completionItem(candidate, index) ==
            LET at == (CHOOSE e \in issueTable : e.candidate = candidate).at
            IN [label |-> [icon |-> IF at = 0 THEN "beginner" ELSE securityIssues[at].icon,
                           text |-> candidate],
                data |-> index + 1,
                insertText |-> candidate,
                detail |-> IF at = 0 THEN "safeSuggestion" ELSE securityIssues[at].issue,
                documentation |-> "assistantSuggestion"]
    IN [i \in 1..Len(first) |-> completionItem(first[i], i - 1)]

\* generateCodeCompletion(document, position) up to  await chain.invoke
generateCodeCompletion(l, text, position) ==
    LET \* document.offsetAt(position): the offset of the line plus the character,
        \* kept inside the line; the end of the text for a line past the last one
        breaks == {i \in 1..Len(text) : text[i] = "\n"}
        starts == {0} \cup breaks
        LineStart(n) == CHOOSE b \in starts : Cardinality({c \in starts : c < b}) = n
        NextStart(n) == IF n + 1 < Cardinality(starts) THEN LineStart(n + 1) ELSE Len(text)
        offset == IF position.line >= Cardinality(starts) THEN Len(text)
                  ELSE Max({LineStart(position.line),
                            Min({LineStart(position.line) + position.character,
                                 NextStart(position.line)})})
        prefix == SubSeq(text, 1, offset)
        lines == splitLines(prefix)
        contextLines == SubSeq(lines, Max({0, Len(lines) - 10}) + 1, Len(lines) - 1)
    IN IF l.llmModel = "null" THEN [kind |-> "notInitialized"]
       ELSE IF Len(trim(prefix)) < 3 THEN [kind |-> "tooShort"]
       ELSE [kind |-> "invoke", context |-> join(contextLines),
             currentLine |-> lines[Len(lines)]]

\* the documents a completion is asked in, as their lines (n numbered lines,
\* and short documents with blank lines and blanks around the text), the
\* positions of the cursor in them, and what generateCodeCompletion does for
\* each with a chat model set
completionCalls ==
    LET CompletionDocs ==
            {[i \in 1..n |-> <<"v", chars.lower[i], ";">>] : n \in 1..MaxLines}
              \cup {<< <<"a", "b">> >>,
                    << <<" ", " ", "a", "b", "c", " ">> >>,
                    << <<"a", "b", "c", ";">>, <<>> >>,
                    << <<>>, <<" ", "a", "b">> >>,
                    << <<"a">>, <<"b">>, <<"c">> >>}
        Positions(lines) ==
            {[line |-> l, character |-> c] :
                l \in (IF Len(lines) <= 3 THEN 0..(Len(lines) - 1) ELSE {Len(lines) - 1}),
                c \in 0..Max({Len(lines[i]) : i \in DOMAIN lines})}
        Cursor(lines) == {p \in Positions(lines) : p.character <= Len(lines[p.line + 1])}
    IN UNION {{[lines |-> lines, position |-> position,
                call |-> generateCodeCompletion([llmModel |-> "model"], join(lines), position)] :
                  position \in Cursor(lines)} : lines \in CompletionDocs}

\* the answers of the model: up to MaxResponseLines lines
Responses ==
    LET Lines == {completionText[name] : name \in DOMAIN completionText \ {"returnX"}}
    IN {join(ls) : ls \in UNION {[1..n -> Lines] : n \in 0..MaxResponseLines}}

\* connection.onCompletion, from the answer to getDocumentSettings on, for a
\* document that is not open, of a type that is not supported (or with the LLM
\* switched off in the settings), or served by generateCodeCompletion
Completion(lines, position, served) ==
    LET call == IF llm.llmModel = "null"
                THEN generateCodeCompletion(llm, join(lines), position)
                ELSE (CHOOSE c \in completionCalls :
                         c.lines = lines /\ c.position = position).call
    IN /\ server.phase = "initialized"
       /\ completion.stage = "idle"
       /\ IF served # "supported"
          THEN /\ reply' = LLMReply("completion", served, <<>>, "null")
               /\ completion' = Constructed.completion
          ELSE IF ~server.isLLMInitialized
          THEN /\ reply' = LLMReply("completion", "serverNotInitialized", <<>>, "null")
               /\ completion' = Constructed.completion
          ELSE IF call.kind # "invoke"
          THEN /\ reply' = LLMReply("completion", call.kind, <<>>, "null")
               /\ completion' = Constructed.completion
          ELSE /\ reply' = NoReply
               /\ completion' = [stage |-> "model", lines |-> lines, position |-> position,
                                 context |-> call.context,
                                 currentLine |-> call.currentLine, response |-> <<>>]
       /\ UNCHANGED <<kbVars, serverVars, rulesVars, scoreVars, request, ghost, sidebar>>

\* chain.invoke returns the answer of the model, or raises an error and the
\* catch block returns []
CompletionModelAnswers(ok, response) ==
    /\ completion.stage = "model"
    /\ completion' = [Constructed.completion EXCEPT !.response = response]
    /\ reply' = IF ok THEN LLMReply("completion", "answer", parseCompletions(response), "null")
                ELSE LLMReply("completion", "failed", <<>>, "null")
    /\ UNCHANGED <<kbVars, serverVars, rulesVars, scoreVars, request, ghost, sidebar>>

\* connection.onCompletionResolve, for the i-th item of the list the client
\* received
CompletionResolve(i) ==
    LET onCompletionResolve(item) ==
            IF item.data \in 1..2
            THEN IF item.data = 1
                 THEN [item EXCEPT !.detail = "TypeScriptDetail",
                                   !.documentation = "TypeScriptDocumentation"]
                 ELSE [item EXCEPT !.detail = "JavaScriptDetail",
                                   !.documentation = "JavaScriptDocumentation"]
            ELSE IF item.documentation = NoValue
                 THEN [item EXCEPT !.documentation = "defaultDocumentation"]
                 ELSE item
    IN
    /\ reply.op = "completion"
    /\ i \in 1..Len(reply.items)
    /\ reply' = [reply EXCEPT !.items[i] = onCompletionResolve(@), !.kind = "resolved"]
    /\ UNCHANGED <<kbVars, serverVars, rulesVars, scoreVars, request, completion, ghost,
                   sidebar>>

NextCompletion ==
    \/ \E settingsKey \in BOOLEAN : OnInitialize(settingsKey)
    \/ OnInitialized
    \/ \E paths \in {p \in PathOutcomes : p[2] = "missing"} :
          ConfigurationArrives("anthropic", paths)
    \/ \E c \in completionCalls : Completion(c.lines, c.position, "supported")
    \/ \E served \in {"noDocument", "unsupported"} :
          Completion(<< <<"a", "b", "c", ";">>, <<>> >>, [line |-> 1, character |-> 0], served)
    \/ \E response \in Responses : CompletionModelAnswers(TRUE, response)
    \/ CompletionModelAnswers(FALSE, <<>>)
    \/ \E i \in 1..3 : CompletionResolve(i)

(***************************************************************************)
(* Ghost text: GhostTextProvider of the client.  A call of                 *)
(* provideInlineCompletionItems is a record of ghost.calls: its position,  *)
(* whether it got past the checks at the top of the method (request), what *)
(* the server answered, and where it stands: its timer is pending          *)
(* ("timer"), its timer was cleared ("cleared"), its request is with the   *)
(* server ("sent"), or its promise is resolved ("items", "null").          *)
(* lastPosition and debounceTimer are 0 for null; a timer is named by the  *)
(* call that set it.                                                       *)
(***************************************************************************)
MaxCalls == 3

MaxPositions == 2

\* provideInlineCompletionItems(document, position, context, token), to the
\* return of the promise, for a token that is cancelled or not and the
\* enableGhostText setting
ProvideInlineCompletionItems(position, cancelled, enableGhostText) ==
    LET call == Len(ghost.calls) + 1
        pending == ghost.debounceTimer # 0 /\ ghost.calls[ghost.debounceTimer].state = "timer"
        cleared == IF pending THEN [ghost.calls EXCEPT ![ghost.debounceTimer].state = "cleared"]
                   ELSE ghost.calls
    IN /\ call <= MaxCalls
       /\ IF ~ghost.isActive \/ cancelled \/ ~enableGhostText
          THEN ghost' = [ghost EXCEPT !.calls = Append(@, [position |-> position,
                                                           request |-> FALSE,
                                                           response |-> "none",
                                                           state |-> "null"])]
          ELSE ghost' = [ghost EXCEPT !.lastPosition = position,
                                      !.debounceTimer = call,
                                      !.calls = Append(cleared, [position |-> position,
                                                                 request |-> TRUE,
                                                                 response |-> "none",
                                                                 state |-> "timer"])]
       /\ UNCHANGED <<kbVars, serverVars, rulesVars, scoreVars, request, reply, completion,
                   sidebar>>

\* the command security-assistant.toggleGhostText
ToggleGhostText ==
    /\ ghost' = [ghost EXCEPT !.isActive = ~@]
    /\ UNCHANGED <<kbVars, serverVars, rulesVars, scoreVars, request, reply, completion,
                   sidebar>>

\* the callback of setTimeout, to  await this.client.sendRequest
DebounceTimerFires(call) ==
    /\ call \in DOMAIN ghost.calls
    /\ ghost.calls[call].state = "timer"
    /\ ghost' = [ghost EXCEPT !.calls[call].state = "sent"]
    /\ UNCHANGED <<kbVars, serverVars, rulesVars, scoreVars, request, reply, completion,
                   sidebar>>

\* the callback without the comparison of this.lastPosition with position
CompletionArrives_NoPositionCheck(call, response) ==
    /\ call \in DOMAIN ghost.calls
    /\ ghost.calls[call].state = "sent"
    /\ ghost' = [ghost EXCEPT
                    !.calls[call].response = response,
                    !.calls[call].state = IF response = "items" THEN "items" ELSE "null"]
    /\ UNCHANGED <<kbVars, serverVars, rulesVars, scoreVars, request, reply, completion,
                   sidebar>>

\* the callback of setTimeout, from the answer to sendRequest on: a list that
\* leaves inline items ("items"), a list that leaves none ("empty"), no list
\* ("falsy"), or a rejected request ("error")
CompletionArrives(call, response) ==
    /\ call \in DOMAIN ghost.calls
    /\ ghost.calls[call].state = "sent"
    /\ ghost' = [ghost EXCEPT
                    !.calls[call].response = response,
                    !.calls[call].state =
                        IF response = "items"
                              /\ ghost.lastPosition = ghost.calls[call].position
                        THEN "items" ELSE "null"]
    /\ UNCHANGED <<kbVars, serverVars, rulesVars, scoreVars, request, reply, completion,
                   sidebar>>

NextGhost ==
    \/ \E position \in 1..MaxPositions : \E cancelled \in BOOLEAN :
          \E enableGhostText \in BOOLEAN :
             ProvideInlineCompletionItems(position, cancelled, enableGhostText)
    \/ ToggleGhostText
    \/ \E call \in 1..MaxCalls : DebounceTimerFires(call)
    \/ \E call \in 1..MaxCalls :
          \E response \in {"items", "empty", "falsy", "error"} :
             CompletionArrives(call, response)

(***************************************************************************)
(* securitySidebar.ts: SecuritySidebarProvider of the client.              *)
(* sidebar.posted is what the webview was last sent: the list of the last  *)
(* refresh message, the counts of the last updateDashboard message and the *)
(* score of the last message that carried one.  sidebar.timers are the     *)
(* updateDashboard messages whose 300 ms timers have not fired, in the     *)
(* order they were set.                                                    *)
(***************************************************************************)
MaxUpdates == 3

MaxIssues == 1

\* _calculateVulnerabilityNumbers, for the list it finds in this._issues
calculateVulnerabilityNumbers(is) ==
    [severity \in {"critical", "high", "medium", "low"} |->
        Cardinality({i \in DOMAIN is : is[i].severity = severity})]

\* resolveWebviewView
ResolveWebviewView ==
    /\ ~sidebar.view
    /\ sidebar' = [sidebar EXCEPT !.view = TRUE]
    /\ UNCHANGED <<kbVars, serverVars, rulesVars, scoreVars, request, reply, completion,
                   ghost>>

\* securitySidebarProvider.updateIssues(issues, calculateSecurityScore(issues))
UpdateIssues(is) ==
    LET securityScore == calculateSecurityScore(is)
        stored == [sidebar EXCEPT !.issues = is, !.score = securityScore,
                                  !.updates = @ + 1, !.seen = sidebar.view]
        vulnerabilityNumber == calculateVulnerabilityNumbers(stored.issues)
        totalIssues == vulnerabilityNumber.critical + vulnerabilityNumber.high
                         + vulnerabilityNumber.medium + vulnerabilityNumber.low
    IN /\ sidebar.updates < MaxUpdates
       /\ sidebar' =
             IF ~sidebar.view THEN stored
             ELSE IF totalIssues = 0 /\ Len(is) = 0
             THEN [stored EXCEPT !.posted.score = securityScore]
             ELSE IF Len(is) > 0
             THEN [stored EXCEPT
                     !.posted.issues = is,
                     !.posted.score = securityScore,
                     !.timers = Append(@, [vulnerabilityNumber |-> vulnerabilityNumber,
                                           securityScore |-> securityScore])]
             ELSE stored
       /\ UNCHANGED <<kbVars, serverVars, rulesVars, scoreVars, request, reply, completion,
                      ghost>>

\* the callback of setTimeout(..., 300) of updateIssues
DashboardTimerFires ==
    /\ sidebar.timers # <<>>
    /\ sidebar' = [sidebar EXCEPT
                      !.posted.vulnerabilityNumber = Head(sidebar.timers).vulnerabilityNumber,
                      !.posted.score = Head(sidebar.timers).securityScore,
                      !.timers = Tail(@)]
    /\ UNCHANGED <<kbVars, serverVars, rulesVars, scoreVars, request, reply, completion,
                   ghost>>

\* _sendInitialData, on the message requestInitialData of the webview or
\* 1500 ms after a refresh the user asked for
SendInitialData ==
    /\ sidebar.view
    /\ sidebar' =
          IF Len(sidebar.issues) = 0 THEN sidebar
          ELSE [sidebar EXCEPT
                  !.posted.vulnerabilityNumber = calculateVulnerabilityNumbers(sidebar.issues),
                  !.posted.score = sidebar.score]
    /\ UNCHANGED <<kbVars, serverVars, rulesVars, scoreVars, request, reply, completion,
                   ghost>>

NextSidebar ==
    \/ ResolveWebviewView
    \/ \E is \in {list \in IssueLists : Len(list) <= MaxIssues} : UpdateIssues(is)
    \/ DashboardTimerFires
    \/ SendInitialData

\* the state after construction, for the documents, the environments and the
\* issue lists a specification starts from
Init(docs, apiKeys, lists) ==
    /\ document \in docs
    /\ rules = securityRuleRegistry
    /\ lastRegistered = Constructed.lastRegistered
    /\ lastRun = NotRun
    /\ kb = knowledgeBase
    /\ builds = <<>>
    /\ search = noSearch
    /\ llm = llmIntegration
    /\ server \in {[Constructed.server EXCEPT !.openaiKey = k] : k \in apiKeys}
    /\ textDocuments = Constructed.textDocuments
    /\ request = noRequest
    /\ reply = NoReply
    /\ completion = Constructed.completion
    /\ ghost = Constructed.ghost
    /\ sidebar = Constructed.sidebar
    /\ issues \in lists
    /\ added = 0
    /\ score = calculateSecurityScore(issues)

SpecRules == Init(DocInputs, {FALSE}, {<<>>}) /\ [][NextRules]_vars

\* the rule engine with rules that flag the same spans: the SQL rule is
\* registered once more under an id of its own, before or after the test rule
\* or a rule that raises an error, and the rules are run on the documents of
\* securityRules.test.ts and on the queries built by concatenation
SpecRuleOverlap ==
    /\ Init({d \in DocInputs : d.shape \in {"fixture", "sqlConcat"}}, {FALSE}, {<<>>})
    /\ [][\/ RegisterRule([sqlInjectionRule EXCEPT !.id = "security-sql-injection-copy"])
          \/ RegisterRule(testRule)
          \/ RegisterRule(brokenRule)
          \/ RunSecurityRules]_vars

SpecScore == Init({Constructed.document}, {FALSE}, IssueLists) /\ [][NextScore]_vars

SpecKB == Init({Constructed.document}, {FALSE}, {<<>>}) /\ [][NextKB]_vars

SpecFallback == Init({Constructed.document}, {FALSE}, {<<>>}) /\ [][NextFallback]_vars

SpecLLM == Init({Constructed.document}, BOOLEAN, {<<>>}) /\ [][NextLLM]_vars

SpecAssistant == Init({Constructed.document}, BOOLEAN, {<<>>}) /\ [][NextAssistant]_vars

SpecServer == Init({Constructed.document}, BOOLEAN, {<<>>}) /\ [][NextServer]_vars

SpecCompletion == Init({Constructed.document}, BOOLEAN, {<<>>}) /\ [][NextCompletion]_vars

SpecSidebar == Init({Constructed.document}, {FALSE}, {<<>>}) /\ [][NextSidebar]_vars

SpecGhost == Init({Constructed.document}, {FALSE}, {<<>>}) /\ [][NextGhost]_vars

\* timers fire, and the server answers every request it is sent
SpecGhostAnswered ==
    /\ SpecGhost
    /\ \A call \in 1..MaxCalls :
          /\ WF_vars(DebounceTimerFires(call))
          /\ WF_vars(\E response \in {"items", "empty", "falsy", "error"} :
                        CompletionArrives(call, response))

(***************************************************************************)
(* Properties of the score.                                                *)
(***************************************************************************)
CountOf(is, severity) == Cardinality({i \in 1..Len(is) : is[i].severity = severity})

WeightedCount(is) ==
    10 * CountOf(is, "critical") + 5 * CountOf(is, "high")
    + 2 * CountOf(is, "medium") + CountOf(is, "low")

ExpectedScore(is) ==
    LET capped == IF WeightedCount(is) < 100 THEN WeightedCount(is) ELSE 100
    IN IF 100 - capped > 0 THEN 100 - capped ELSE 0

ScoreIsClampedSum ==
    /\ score = ExpectedScore(issues)
    /\ score \in 0..100
    /\ (issues = <<>> => score = 100)
    /\ (issues = <<Issue("critical"), Issue("high"), Issue("medium")>> => score = 83)

ScoreNeverIncreases ==
    (/\ Len(issues') = Len(issues) + 1
     /\ SubSeq(issues', 1, Len(issues)) = issues) => score' <= score

\* C1: calculateSecurityScore returns max(0, 100 - min(100, 10*critical + 5*high
\* + 2*medium + low)): 100 for the empty list, always within 0..100, never higher
\* after a finding is added, and 83 for one critical, one high and one medium.
C1_ScoreFormula == [](ScoreIsClampedSum) /\ [][ScoreNeverIncreases]_vars

\* a finding was added to a list whose deductions already exceed 100
C1_Witness == added = 1 /\ WeightedCount(issues) > 100 /\ score = 0

(***************************************************************************)
(* Properties of the rule engine.                                          *)
(***************************************************************************)
RECURSIVE Flatten(_)
Flatten(ss) == IF ss = <<>> THEN <<>> ELSE Head(ss) \o Flatten(Tail(ss))

Ids(rs) == [i \in 1..Len(rs) |-> rs[i].id]

\* the findings each rule of the last pass contributed, an erroring rule none
Contributions(run) ==
    [i \in 1..Len(run.byRule) |->
        IF run.byRule[i].threw THEN <<>> ELSE run.byRule[i].diagnostics]

\* the findings a rule of the last pass returned
FindingsOf(id) ==
    Flatten([i \in 1..Len(lastRun.byRule) |->
                IF lastRun.byRule[i].id = id THEN lastRun.byRule[i].diagnostics ELSE <<>>])

\* the last pass ran the three built-in rules and nothing else
BuiltinPass == lastRun.called /\ rules = securityRuleRegistry

\* C2: when the validate of a registered rule raises an error, that rule
\* contributes no finding, every other registered rule is still executed, and
\* runSecurityRules returns normally with exactly the other rules' findings.
C2_RuleErrorIsolated ==
    lastRun.called =>
        /\ lastRun.returned
        /\ Ids(lastRun.byRule) = Ids(rules)
        /\ lastRun.diagnostics = Flatten(Contributions(lastRun))
        /\ \A i \in 1..Len(lastRun.byRule) :
              lastRun.byRule[i].threw => lastRun.byRule[i].diagnostics = <<>>

\* the first rule of a pass raised an error and a later rule reported a finding
C2_Witness ==
    /\ lastRun.called
    /\ lastRun.byRule[1].threw
    /\ \E i \in 2..Len(lastRun.byRule) :
          ~lastRun.byRule[i].threw /\ Len(lastRun.byRule[i].diagnostics) > 0
    /\ Len(lastRun.diagnostics) > 0

\* C4: every text in which a SQL keyword is followed by a '+' concatenation of a
\* variable gets at least one finding of the SQL-injection rule (exactly one
\* finding in all for the document of test SQL-01), and a text whose query uses
\* '?' placeholders with a separate parameter array gets no finding.
C4_SqlConcatenationFlagged ==
    BuiltinPass =>
        /\ (document.shape = "sqlConcat" => Len(FindingsOf(sqlInjectionRule.id)) >= 1)
        /\ (document.word = code.SQL01 => Len(lastRun.diagnostics) = 1)
        /\ (document.shape = "sqlParam" \/ document.word = code.SQL02
               => Len(lastRun.diagnostics) = 0)

\* the keyword and its string are on one line, the '+' and the variable on the
\* next: the rules return nothing
C4_Counterexample ==
    /\ BuiltinPass
    /\ document.shape = "sqlConcat"
    /\ document.gap1 = <<"\n">>
    /\ Len(lastRun.diagnostics) = 0

\* C5: a backtick string holding a SQL keyword and a ${variable} interpolation,
\* without '+', gets exactly one finding, whose message names SQL injection.
C5_SqlTemplateFlagged ==
    BuiltinPass /\ (document.shape = "sqlTemplate" \/ document.word = code.SQL03) =>
        /\ Len(lastRun.diagnostics) = 1
        /\ lastRun.diagnostics[1].message = messages.sqlInjection

\* the document of test SQL-03 went through the rules, which return nothing
C5_Counterexample ==
    /\ BuiltinPass
    /\ document.word = code.SQL03
    /\ Len(lastRun.diagnostics) = 0

\* C6: every text that assigns a variable to innerHTML or outerHTML, or passes a
\* variable to a jQuery-style .html(...) call, gets at least one finding of the
\* XSS rule (exactly one finding in all for element.innerHTML = userInput;), and
\* a text that only assigns the variable to textContent gets no finding.
C6_XssFlagged ==
    BuiltinPass =>
        /\ (document.shape = "domAssign" /\ document.word \in {lit.innerHTML, lit.outerHTML}
               => Len(FindingsOf(xssVulnerabilityRule.id)) >= 1)
        /\ (document.shape = "jqueryHtml" \/ document.word = code.XSS03
               => Len(FindingsOf(xssVulnerabilityRule.id)) >= 1)
        /\ (document.word = code.XSS01 => Len(lastRun.diagnostics) = 1)
        /\ (\/ document.shape = "domAssign" /\ document.word = frag.textContent
            \/ document.word = code.XSS02
               => Len(lastRun.diagnostics) = 0)

\* a blank between the selector call and .html(variable): the rules return
\* nothing
C6_Counterexample ==
    /\ BuiltinPass
    /\ document.shape = "jqueryHtml"
    /\ document.gap1 = <<" ">>
    /\ document.gap2 = <<>>
    /\ Len(lastRun.diagnostics) = 0

\* C7: every text that assigns a quoted literal to a variable named password,
\* api-key, secret, token or credential, or that logs an argument mentioning
\* password, apiKey, secret or token, gets at least one finding of the
\* sensitive-data rule, and a value read from process.env gets no finding.
C7_SensitiveDataFlagged ==
    BuiltinPass =>
        /\ (document.shape \in {"secretAssign", "logSecret"}
            \/ document.word \in {code.DATA01, code.DATA03}
               => Len(FindingsOf(sensitiveDataRule.id)) >= 1)
        /\ (document.shape = "envAssign" \/ document.word = code.DATA02
               => Len(lastRun.diagnostics) = 0)

\* console.log(password with the closing parenthesis on the next line: the
\* rules return nothing
C7_Counterexample ==
    /\ BuiltinPass
    /\ document.shape = "logSecret"
    /\ document.arg = lit.password
    /\ document.gap2 = <<"\n">>
    /\ Len(lastRun.diagnostics) = 0

AllSeverity(ds, severity) == \A i \in 1..Len(ds) : ds[i].severity = severity

\* C8: every finding of the SQL-injection rule and of the XSS rule has error
\* severity, which the client maps to critical, and every finding of the
\* sensitive-data rule has warning severity.
C8_SeverityFixedPerRule ==
    BuiltinPass =>
        /\ AllSeverity(FindingsOf(sqlInjectionRule.id), DiagnosticSeverity.Error)
        /\ AllSeverity(FindingsOf(xssVulnerabilityRule.id), DiagnosticSeverity.Error)
        /\ AllSeverity(FindingsOf(sensitiveDataRule.id), DiagnosticSeverity.Warning)
        /\ AllSeverity(convertDiagnosticsToIssues(FindingsOf(sqlInjectionRule.id)
                           \o FindingsOf(xssVulnerabilityRule.id)), "critical")

\* the finding for  element.innerHTML = userInput;  has warning severity, which
\* the client maps to high
C8_Counterexample ==
    /\ BuiltinPass
    /\ document.word = code.XSS01
    /\ Len(FindingsOf(xssVulnerabilityRule.id)) = 1
    /\ FindingsOf(xssVulnerabilityRule.id)[1].severity = DiagnosticSeverity.Warning
    /\ convertDiagnosticsToIssues(lastRun.diagnostics)[1].severity = "high"

\* C9: the registry holds at most one rule per id: getRule gives the rule that
\* was registered last under the id, undefined for an id never registered,
\* getRules has one entry per registered id, and the rules of the registry are
\* the rules the next runSecurityRules call executes.
C9_LastRegistrationWins ==
    /\ \A id \in RuleIds : getRule(rules, id) = lastRegistered[id]
    /\ \A i, j \in 1..Len(getRules(rules)) :
          getRules(rules)[i].id = getRules(rules)[j].id => i = j
    /\ {getRules(rules)[i].id : i \in 1..Len(getRules(rules))}
          = {id \in RuleIds : lastRegistered[id] # undefinedRule}
    /\ (lastRun.called => Ids(lastRun.byRule) = Ids(rules))

\* the SQL rule was registered again under its id, the test rule was added at
\* run time, and the pass that followed ran the test rule
C9_Witness ==
    /\ getRule(rules, sqlInjectionRule.id) = brokenSqlRule
    /\ getRule(rules, brokenRule.id) = undefinedRule
    /\ lastRun.called
    /\ \E i \in 1..Len(lastRun.byRule) :
          lastRun.byRule[i].id = testRule.id /\ Len(lastRun.byRule[i].diagnostics) = 1

(***************************************************************************)
(* Properties of the server.                                               *)
(***************************************************************************)
\* the states of the LLM subsystem
NeverInitialized == ~server.isLLMInitialized /\ llm.llmModel = "null"

InitializationFailed ==
    /\ server.phase = "initialized"
    /\ server.openaiKey
    /\ ~server.configPending
    /\ builds = <<>>
    /\ ~server.isLLMInitialized

Ready == server.isLLMInitialized /\ llm.isEmbeddingsInitialized /\ kb.isInitialized

IndexBuildFailed ==
    /\ server.isLLMInitialized
    /\ getModelConfig(llm.currentModelId).useEmbeddings
    /\ ~llm.isEmbeddingsInitialized
    /\ ~kb.isInitialized
    /\ builds = <<>>

\* C3: in every state of the LLM subsystem (never initialized, initialization
\* failed, ready, index build failed) a diagnostics request for an open document
\* returns a full report whose items are exactly the findings of the rule engine
\* for that document, and a request for an unknown document returns an empty
\* full report.
C3_DiagnosticsAlwaysServed ==
    reply.op = "diagnostics" =>
        /\ reply.kind = "full"
        /\ ~reply.threw
        /\ reply.items =
              IF textDocuments[reply.uri] = closed THEN <<>>
              ELSE securityDiagnostics(textDocuments[reply.uri])
        /\ (textDocuments[reply.uri].word = code.XSS01 =>
               Len(reply.items) = 1 /\ reply.items[1].message = messages.xss)
        /\ (textDocuments[reply.uri].word = code.DATA02 => reply.items = <<>>)

\* the initialization of the LLM failed, and a diagnostics request for an open
\* document was answered with the finding of the XSS rule
C3_Witness ==
    /\ reply.op = "diagnostics"
    /\ InitializationFailed
    /\ textDocuments[reply.uri].word = code.XSS01
    /\ Len(reply.items) = 1

\* requests answered in the other states of the LLM subsystem
DiagnosticsWhenNeverInitialized ==
    reply.op = "diagnostics" /\ NeverInitialized /\ Len(reply.items) = 1

DiagnosticsWhenReady == reply.op = "diagnostics" /\ Ready /\ Len(reply.items) = 1

DiagnosticsWhenIndexBuildFailed ==
    reply.op = "diagnostics" /\ IndexBuildFailed /\ Len(reply.items) = 1

DiagnosticsForUnknownDocument ==
    /\ reply.op = "diagnostics"
    /\ textDocuments[reply.uri] = closed
    /\ \E uri \in Uris : textDocuments[uri] # closed

(***************************************************************************)
(* C10: searchSimilarDocuments(query, k) never throws and returns at most  *)
(* k documents, whatever the state of the knowledge base: no index, an     *)
(* index, an index invalidated by a change of the corpus, a build in       *)
(* flight, or a similarity call that raises an error.                      *)
(***************************************************************************)
SearchReturned == reply.op = "search" /\ ~reply.threw

SearchAtMostK == SearchReturned => Len(reply.items) <= reply.k

C10_SearchNeverThrows ==
    reply.op = "search" => ~reply.threw /\ Len(reply.items) <= reply.k

\* a search over a corpus that holds an item without pageContent took the
\* keyword fallback, which raised the TypeError to the caller
C10_Counterexample ==
    /\ reply.op = "search"
    /\ reply.threw
    /\ \E i \in 1..Len(kb.documents) : scoreThrows(KnowledgeDocs[kb.documents[i]])

\* search that returned with fewer documents than the corpus holds, while the
\* index was stale and while a build was in flight
SearchDuringBuild ==
    /\ SearchReturned
    /\ Len(builds) > 0
    /\ Len(reply.items) = reply.k
    /\ Len(kb.documents) > reply.k

SearchOverStaleIndex ==
    /\ SearchReturned
    /\ kb.vectorStore.built
    /\ ~kb.isInitialized
    /\ reply.k > 0
    /\ Len(reply.items) = reply.k

(***************************************************************************)
(* C11: without an index, a search returns the first k documents of the    *)
(* corpus in descending order of score, documents of equal score in corpus *)
(* order.  The score of a document is the number of lowercase              *)
(* whitespace-delimited terms of the query that occur in its content, plus *)
(* 2 when its category occurs in the lowercased query, plus 1 for each of  *)
(* its tags that occurs in the query.  The result is a function of corpus, *)
(* query and k, and for the three built-in documents and the query         *)
(* "sql injection risk" the first result has the category sql-injection.   *)
(***************************************************************************)
\* the terms of a query, each with the place where it starts
QueryTerms(query) ==
    LET q == toLowerCase(query)
        starts == {i \in 1..Len(q) :
                      q[i] \notin chars.space /\ (i = 1 \/ q[i - 1] \in chars.space)}
    IN {<<i, SubSeq(q, i, Min({j \in i..Len(q) :
                                  j = Len(q) \/ q[j + 1] \in chars.space}))>> : i \in starts}

StatedScore(doc, query) ==
    Cardinality({t \in QueryTerms(query) : includes(toLowerCase(doc.pageContent), t[2])})
    + (IF includes(toLowerCase(query), toLowerCase(doc.metadata.category)) THEN 2 ELSE 0)
    + Cardinality({i \in 1..Len(doc.metadata.tags) :
                      includes(toLowerCase(query), toLowerCase(doc.metadata.tags[i]))})

StatedScores ==
    {[doc |-> name, query |-> query, score |-> StatedScore(KnowledgeDocs[name], query)] :
        name \in {n \in DOMAIN KnowledgeDocs : ~scoreThrows(KnowledgeDocs[n])},
        query \in SearchQueries}

\* the documents of the corpus before which the i-th is not ranked
Ahead(corpus, query, i) ==
    LET s(j) == (CHOOSE e \in StatedScores : e.doc = corpus[j] /\ e.query = query).score
    IN {j \in 1..Len(corpus) : s(j) > s(i) \/ (s(j) = s(i) /\ j < i)}

Ranked(corpus, query, k) ==
    [r \in 1..Min({k, Len(corpus)}) |->
        corpus[CHOOSE i \in 1..Len(corpus) : Cardinality(Ahead(corpus, query, i)) = r - 1]]

C11_FallbackRanking ==
    SearchReturned =>
        /\ reply.items = Ranked(kb.documents, reply.query, reply.k)
        /\ (kb.documents = defaultDocs /\ reply.query = kbText.sqlInjectionRisk /\ reply.k >= 1
               => KnowledgeDocs[reply.items[1]].metadata.category = meta.sqlInjection)

\* the last document of the corpus scored highest and was returned first
C11_Witness ==
    /\ SearchReturned
    /\ reply.query = kbText.sqlInjectionRisk
    /\ kb.documents = <<"SEC-003", "SEC-002", "SEC-001">>
    /\ reply.items = <<"SEC-001", "SEC-002">>

\* the three built-in documents and the query "sql injection risk"
FallbackOverDefaultDocs ==
    /\ SearchReturned
    /\ reply.query = kbText.sqlInjectionRisk
    /\ kb.documents = defaultDocs
    /\ reply.items = <<"SEC-001", "SEC-002">>

\* two documents of equal score, the category of the third in the query
FallbackTieInCorpusOrder ==
    /\ SearchReturned
    /\ reply.query = kbText.xssInHtml
    /\ kb.documents = <<"SEC-003", "SEC-001", "SEC-002">>
    /\ reply.items = <<"SEC-002", "SEC-003">>

(***************************************************************************)
(* C12: every operation that changes the set of documents (loadFromFile,   *)
(* addDocuments, clearDocuments) invalidates the index: in every state     *)
(* isVectorStoreInitialized() is true only if the index was built over     *)
(* exactly the documents the knowledge base holds now, so that no search   *)
(* is answered from an index built over an earlier corpus.                 *)
(***************************************************************************)
IndexIsCurrent == kb.vectorStore.built /\ kb.vectorStore.docs = kb.documents

C12_IndexInvalidatedOnChange == isVectorStoreInitialized(kb) => IndexIsCurrent

\* loadFromFile has just replaced the corpus by the documents of the file, no
\* build is in flight, and the index built over the earlier corpus still counts
\* as initialized
C12_Counterexample ==
    /\ reply.op = "loadFromFile"
    /\ reply.items = fileDocs
    /\ kb.documents = fileDocs
    /\ builds = <<>>
    /\ isVectorStoreInitialized(kb)
    /\ kb.vectorStore.docs = defaultDocs

\* a search began after the corpus was replaced and was answered from the
\* index: it returned a document the knowledge base no longer holds
SearchAnsweredFromEarlierCorpus ==
    /\ SearchReturned
    /\ kb.documents = fileDocs
    /\ kb.vectorStore.docs = defaultDocs
    /\ isVectorStoreInitialized(kb)
    /\ \E i \in 1..Len(reply.items) : reply.items[i] = "SEC-002"

\* addDocuments and clearDocuments do invalidate the index
AddAndClearInvalidate ==
    [][(kb'.documents # kb.documents /\ reply'.op # "loadFromFile"
            /\ reply'.op # "loadDefaultKnowledgeBase" /\ builds' = builds)
         => ~isVectorStoreInitialized(kb')]_vars

(***************************************************************************)
(* C13: loading and adding documents append to the corpus: every document  *)
(* the knowledge base holds before a load or an addDocuments is still held *)
(* afterwards, and running the default load again duplicates no document,  *)
(* so the documents added through importCustomVectorStore are still in the *)
(* corpus after a later initializeLLM, such as that of a provider switch.  *)
(***************************************************************************)
Holds(corpus, name) == \E i \in 1..Len(corpus) : corpus[i] = name

Occurrences(corpus, name) == Cardinality({i \in 1..Len(corpus) : corpus[i] = name})

\* no step of the server removes a document
DocumentsKept == \A i \in 1..Len(kb.documents) : Holds(kb'.documents, kb.documents[i])

\* no built-in document is in the corpus twice
NoBuiltinTwice == \A i \in 1..Len(defaultDocs) : Occurrences(kb.documents, defaultDocs[i]) <= 1

C13_LoadingAppends == [][DocumentsKept /\ NoBuiltinTwice']_vars

\* the index was built over the documents of the file and the imported ones,
\* and after the provider switch that followed the corpus holds the documents
\* of the file only
C13_Counterexample ==
    /\ reply.op = "switchLLMProvider"
    /\ reply.ok
    /\ kb.vectorStore.docs = fileDocs \o <<customDocs[1]>>
    /\ kb.documents = fileDocs

\* initializeLLM ran twice with no knowledge file present
DefaultLoadedTwice == kb.documents = defaultDocs \o defaultDocs

C13_DocumentsKept == [][DocumentsKept]_vars

C13_NoBuiltinTwice == NoBuiltinTwice

(***************************************************************************)
(* C14: initVectorStore never throws, and whenever it returns false, for   *)
(* an empty corpus or for an error of the embedding backend, the knowledge *)
(* base is left uninitialized: isVectorStoreInitialized() is false right   *)
(* after the call, whatever the state before it.                           *)
(***************************************************************************)
InitVectorStoreReturnedFalse == reply.op = "initVectorStore" /\ ~reply.ok

C14_FailedInitLeavesUninitialized ==
    /\ reply.op = "initVectorStore" => ~reply.threw
    /\ InitVectorStoreReturnedFalse => ~isVectorStoreInitialized(kb)

\* initVectorStore found the corpus empty and returned false, no build is in
\* flight, and the index built before the corpus was emptied still counts as
\* initialized
C14_Counterexample ==
    /\ InitVectorStoreReturnedFalse
    /\ kb.documents = <<>>
    /\ builds = <<>>
    /\ isVectorStoreInitialized(kb)

\* the error of the embedding backend does leave the base uninitialized
BackendErrorLeavesUninitialized ==
    (InitVectorStoreReturnedFalse /\ kb.documents # <<>>) => ~isVectorStoreInitialized(kb)

BackendErrorAfterBuild ==
    /\ InitVectorStoreReturnedFalse
    /\ kb.documents # <<>>
    /\ kb.vectorStore.built

(***************************************************************************)
(* C15: when the knowledge file is missing or malformed, loadFromFile      *)
(* returns an empty list without throwing and leaves the corpus as it was. *)
(* When no candidate path gives documents, loadDefaultKnowledgeBase adds   *)
(* the built-in documents, so the corpus is not empty after it, and a      *)
(* fallback search with k >= 1 over a corpus that is not empty returns at  *)
(* least one document.  (The text of every document is present: the search *)
(* over an item without pageContent is the subject of C10.)                *)
(***************************************************************************)
WellFormed(corpus) == \A i \in 1..Len(corpus) : ~scoreThrows(KnowledgeDocs[corpus[i]])

LoadFailureKeepsCorpus ==
    \A outcome \in {"missing", "malformed"} :
        LoadFromFile(outcome) =>
            /\ kb'.documents = kb.documents
            /\ reply'.items = <<>>
            /\ ~reply'.threw

\* after loadDefaultKnowledgeBase the corpus is not empty, and ends with the
\* built-in documents when these are what the call returned
DefaultLoadSeeds ==
    reply.op = "loadDefaultKnowledgeBase" =>
        /\ kb.documents # <<>>
        /\ ~reply.threw
        /\ reply.items = defaultDocs =>
              /\ Len(kb.documents) >= Len(defaultDocs)
              /\ SubSeq(kb.documents, Len(kb.documents) - Len(defaultDocs) + 1,
                        Len(kb.documents)) = defaultDocs

SearchOverCorpusNotEmpty ==
    (reply.op = "search" /\ reply.k >= 1 /\ kb.documents # <<>> /\ WellFormed(kb.documents))
        => ~reply.threw /\ Len(reply.items) >= 1

C15_LoadFailureFallsBackToDefaults ==
    [][LoadFailureKeepsCorpus /\ DefaultLoadSeeds' /\ SearchOverCorpusNotEmpty']_vars

\* no candidate path gave documents: the built-in documents were added to the
\* document the corpus held
C15_Witness ==
    /\ reply.op = "loadDefaultKnowledgeBase"
    /\ reply.items = defaultDocs
    /\ kb.documents = <<"CUSTOM-1">> \o defaultDocs

\* a load that returned nothing and left a corpus that is not empty
LoadFailedCorpusKept ==
    /\ reply.op = "loadFromFile"
    /\ reply.items = <<>>
    /\ kb.documents = <<"CUSTOM-1">> \o defaultDocs

\* a search over the corpus the default load seeded
SearchAfterSeeding ==
    /\ SearchReturned
    /\ reply.k = 1
    /\ kb.documents = <<"CUSTOM-1">> \o defaultDocs
    /\ Len(reply.items) = 1

(***************************************************************************)
(* C16: while the chat model is not initialized, because initializeLLM     *)
(* never ran or because it failed on a configuration error,                *)
(* getSecuritySuggestion and analyzeCodeSecurity return the text that says *)
(* the service is not initialized and generateCodeCompletion returns an    *)
(* empty list; none of them throws, asks the knowledge base or invokes the *)
(* model.                                                                  *)
(***************************************************************************)
LLMOperations == {"getSecuritySuggestion", "analyzeCodeSecurity", "generateCodeCompletion"}

\* a step taken while llmModel is null starts no search and no model request,
\* and what an operation returns in it is the answer for a service that is
\* not initialized
NotInitializedStep ==
    llm.llmModel = "null" =>
        /\ request' = noRequest
        /\ search' = noSearch
        /\ reply'.op \in LLMOperations =>
              /\ reply'.kind = "notInitialized"
              /\ reply'.items = <<>>
              /\ ~reply'.threw
              /\ kb' = kb

C16_NotInitializedFailsClosed == [][NotInitializedStep]_vars

\* a provider switch failed because no API key is set, and getSecuritySuggestion
\* answered that the service is not initialized
C16_Witness ==
    /\ reply.op = "getSecuritySuggestion"
    /\ reply.kind = "notInitialized"
    /\ ~server.openaiKey
    /\ llm.currentModelId = "openai"
    /\ llm.llmModel = "null"

\* the other operations, before any initialization and after the one of the
\* start failed with a key present
CompletionWhenNeverInitialized ==
    /\ reply.op = "generateCodeCompletion"
    /\ reply.kind = "notInitialized"
    /\ reply.items = <<>>
    /\ server.phase = "created"

AnalysisWhenInitializationFailed ==
    /\ reply.op = "analyzeCodeSecurity"
    /\ reply.kind = "notInitialized"
    /\ InitializationFailed
    /\ llm.llmModel = "null"

(***************************************************************************)
(* C17: the embeddings are a soft dependency.  Every run of initializeLLM  *)
(* for a registered provider with an API key present leaves the chat model *)
(* initialized and does not throw, whether the initialization of the       *)
(* embeddings and of the index succeeds, fails or is disabled by the       *)
(* configuration of the provider; when it fails or is disabled,            *)
(* isEmbeddingsInitialized is false after the run.                         *)
(***************************************************************************)
\* the provider a run of initializeLLM(modelId) is for
ProviderOfRun(modelId) == IF modelId = "" THEN llm.currentModelId ELSE modelId

\* a run of initializeLLM started in this state with the API key present, up
\* to its await of the index or, when there is nothing to await, to its end
RunStart ==
    \A modelId \in DOMAIN modelConfigs \cup {""}, paths \in PathOutcomes :
        ProviderOfRun(modelId) \in DOMAIN modelConfigs =>
            LET run == initializeLLM(llm, kb, TRUE, modelId, paths)
            IN /\ ~run.threw
               /\ run.llm.llmModel = ProviderOfRun(modelId)
               /\ ~run.build => ~run.llm.isEmbeddingsInitialized

\* the end of a run that awaited the index
RunEndStep ==
    \A i \in 1..Len(builds), ok \in BOOLEAN :
        (builds[i].caller \in {"onInitialized", "switchLLMProvider"}
             /\ InitVectorStoreEnd(i, ok)) =>
            /\ llm'.llmModel # "null"
            /\ llm'.isEmbeddingsInitialized = ok
            /\ builds[i].caller = "onInitialized" => server'.isLLMInitialized
            /\ builds[i].caller = "switchLLMProvider" =>
                  reply'.op = "switchLLMProvider" /\ reply'.ok

C17_EmbeddingsAreSoftDependency == []RunStart /\ [][RunEndStep]_vars

\* the index build of a switch to openai failed: the switch reports success,
\* the chat model is the one of openai, the embeddings are not initialized
C17_Witness ==
    /\ reply.op = "switchLLMProvider"
    /\ reply.ok
    /\ llm.llmModel = "openai"
    /\ ~llm.isEmbeddingsInitialized
    /\ ~kb.isInitialized
    /\ builds = <<>>

\* a provider whose configuration disables the embeddings, and a run whose
\* index build succeeded
InitializedWithEmbeddingsDisabled ==
    /\ reply.op = "switchLLMProvider"
    /\ reply.ok
    /\ llm.llmModel = "anthropic"
    /\ ~llm.isEmbeddingsInitialized

InitializedWithEmbeddings ==
    /\ reply.op = "switchLLMProvider"
    /\ reply.ok
    /\ llm.llmModel = "openai"
    /\ llm.isEmbeddingsInitialized
    /\ kb.isInitialized

(***************************************************************************)
(* C18: in every reachable state the current provider id resolves to a     *)
(* registered provider configuration.  setLLMProvider with an unregistered *)
(* id returns false and leaves the current provider id, the model instance *)
(* and the embeddings state unchanged, and the switch request reports      *)
(* failure without running the initialization again.                       *)
(***************************************************************************)
\* the registered providers are the own keys of modelConfigs
CurrentIdRegistered == llm.currentModelId \in DOMAIN modelConfigs

UnregisteredIds == (Providers \cup DOMAIN ObjectPrototype) \ DOMAIN modelConfigs

\* a switch request for an id that is not registered
UnregisteredSwitchStep ==
    \A provider \in UnregisteredIds, paths \in PathOutcomes :
        SwitchLLMProvider(provider, paths) =>
            /\ setLLMProvider(llm, provider) = llm
            /\ llm' = llm
            /\ UNCHANGED kbVars
            /\ reply'.op = "switchLLMProvider" /\ ~reply'.ok

C18_CurrentIdRegistered == []CurrentIdRegistered /\ [][UnregisteredSwitchStep]_vars

\* after a switch request for "constructor", which names a property that
\* modelConfigs inherits, the current id is one that is not registered
C18_Counterexample ==
    /\ reply.op = "switchLLMProvider"
    /\ llm.currentModelId = "constructor"
    /\ llm.currentModelId \notin DOMAIN modelConfigs

\* an id that names no property of modelConfigs at all is rejected as stated
UnknownIdRejected ==
    [][\A paths \in PathOutcomes :
          SwitchLLMProvider("unknown", paths) =>
              /\ llm' = llm
              /\ UNCHANGED kbVars
              /\ reply'.op = "switchLLMProvider" /\ ~reply'.ok]_vars

UnknownIdRejectedReached ==
    /\ reply.op = "switchLLMProvider"
    /\ ~reply.ok
    /\ server.openaiKey
    /\ llm.llmModel = llm.currentModelId
    /\ CurrentIdRegistered

(***************************************************************************)
(* C19: a provider switch cancels no model request in flight: the request  *)
(* completes with the model it was made to.  Every LLM operation that      *)
(* starts after the switch request was accepted is served by a model built *)
(* from the configuration of the newly selected provider, so the provider  *)
(* that getCurrentProviderConfig reports is always the one serving new     *)
(* requests.                                                               *)
(***************************************************************************)
\* the chat model, once there is one, is built from the configuration that
\* getCurrentProviderConfig reports
ModelOfCurrentProvider ==
    llm.llmModel # "null" =>
        /\ llm.llmModel = llm.currentModelId
        /\ getCurrentProviderConfig(llm) = getModelConfig(llm.llmModel)

\* a model request in flight stays as it is until it is answered, and is
\* answered by the model it was made to
InFlightKept ==
    request.stage = "model" =>
        \/ request' = request
        \/ /\ request' = noRequest
           /\ reply'.op = request.op
           /\ reply'.model = request.model

\* a model request that starts is made to the model of the current provider
NewRequestServedByCurrent ==
    (request'.stage = "model" /\ request.stage # "model") =>
        /\ request'.model = llm'.currentModelId
        /\ getModelConfig(request'.model) = getCurrentProviderConfig(llm')

C19_SwitchKeepsInFlight ==
    []ModelOfCurrentProvider /\ [][InFlightKept /\ NewRequestServedByCurrent]_vars

\* a request made to the start-up model was answered by it after a switch to
\* openai had been accepted
C19_Witness ==
    /\ reply.op \in LLMOperations
    /\ reply.kind = "answer"
    /\ reply.model = defaultModel
    /\ llm.llmModel = "openai"
    /\ llm.currentModelId = "openai"

\* a request made while the index build of an accepted switch is awaited goes
\* to the new model
ServedDuringSwitch ==
    /\ request.stage = "model"
    /\ request.model = "openai"
    /\ \E i \in 1..Len(builds) : builds[i].caller = "switchLLMProvider"

(***************************************************************************)
(* C20: getSecuritySuggestion puts into its prompt the content of at most  *)
(* 2 knowledge documents, the top-2 results of the knowledge-base search   *)
(* for the code, in every embeddings state; when the embeddings are not    *)
(* initialized the retrieval still goes through the keyword-fallback       *)
(* search of the knowledge base.                                           *)
(***************************************************************************)
\* the knowledge documents in the prompt of a suggestion request
PromptAtMostTwo ==
    (request.op = "getSecuritySuggestion" /\ request.stage = "model") =>
        Len(request.docs) <= 2

\* a suggestion asked for while the embeddings are not initialized
SuggestionWithoutEmbeddingsStep ==
    \A snippet \in Codes :
        (/\ llm.llmModel # "null"
         /\ ~llm.isEmbeddingsInitialized
         /\ GetSecuritySuggestion(snippet)) =>
            LET found == simpleKeywordSearch(kb.documents, snippet, 2)
            IN ~found.threw => (request'.stage = "model" /\ request'.docs = found.items)

C20_SuggestionUsesTopTwo ==
    []PromptAtMostTwo /\ [][SuggestionWithoutEmbeddingsStep]_vars

\* the index build failed over the three built-in documents, and the prompt
\* of the suggestion holds all three
C20_Counterexample ==
    /\ request.op = "getSecuritySuggestion"
    /\ request.stage = "model"
    /\ ~llm.isEmbeddingsInitialized
    /\ request.docs = defaultDocs
    /\ Len(request.docs) = 3

\* with the embeddings initialized the prompt holds the results of the search
\* for 2 documents
SuggestionWithEmbeddings ==
    [][(/\ request'.op = "getSecuritySuggestion"
        /\ request'.stage = "model"
        /\ request.stage # "model"
        /\ llm.isEmbeddingsInitialized \/ request.stage = "search")
           => Len(request'.docs) <= 2]_vars

SuggestionWithEmbeddingsReached ==
    /\ request.op = "getSecuritySuggestion"
    /\ request.stage = "model"
    /\ llm.isEmbeddingsInitialized
    /\ Len(request.docs) = 2

(***************************************************************************)
(* C21: generateCodeCompletion returns an empty list without calling the   *)
(* model whenever the text of the current line before the cursor, trimmed, *)
(* is shorter than 3 characters, however much text precedes that line in   *)
(* the document.                                                           *)
(***************************************************************************)
\* the text of the cursor line before the cursor
LinePrefix(lines, position) == SubSeq(lines[position.line + 1], 1, position.character)

\* the whole text before the cursor
TextBeforeCursor(lines, position) ==
    join(SubSeq(lines, 1, position.line) \o <<LinePrefix(lines, position)>>)

\* a request that reached the model was made with a line prefix of 3
\* characters or more
C21_ShortLinePrefixShortCircuits ==
    completion.stage = "model" =>
        Len(trim(LinePrefix(completion.lines, completion.position))) >= 3

\* the model is asked with the cursor at the start of an empty second line
C21_Counterexample ==
    /\ completion.stage = "model"
    /\ completion.lines = << <<"a", "b", "c", ";">>, <<>> >>
    /\ completion.position = [line |-> 1, character |-> 0]
    /\ LinePrefix(completion.lines, completion.position) = <<>>

\* what the code tests is the whole text before the cursor
ShortTextShortCircuits ==
    completion.stage = "model" =>
        Len(trim(TextBeforeCursor(completion.lines, completion.position))) >= 3

TooShortReached ==
    /\ reply.op = "completion"
    /\ reply.kind = "tooShort"
    /\ reply.items = <<>>
    /\ llm.llmModel # "null"

(***************************************************************************)
(* C22: generateCodeCompletion yields at most 3 candidates, none blank, in *)
(* the order of the output of the model, and the explanatory detail the    *)
(* client receives for each candidate, also after the completion-resolve   *)
(* step, is the label of the first entry of the ordered risk-pattern list  *)
(* that matches the candidate, or the generic safe-suggestion label when   *)
(* none matches.                                                           *)
(***************************************************************************)
\* the lines of the answer that are not blank, in their order, at most 3
ExpectedCandidates(response) ==
    LET ls == splitLines(response)
        NonBlank(i) == \E j \in 1..Len(ls[i]) : ls[i][j] \notin chars.space
        RECURSIVE Take(_, _)
        Take(i, n) ==
            IF i > Len(ls) \/ n = 0 THEN <<>>
            ELSE IF NonBlank(i) THEN <<ls[i]>> \o Take(i + 1, n - 1)
            ELSE Take(i + 1, n)
    IN Take(1, 3)

\* the label of the first entry of securityIssues that matches
ExpectedDetail(candidate) ==
    LET matching == {i \in 1..Len(securityIssues) : test(securityIssues[i].pattern, candidate)}
    IN IF matching = {} THEN "safeSuggestion" ELSE securityIssues[Min(matching)].issue

CandidatesAsStated ==
    /\ Len(reply.items) <= 3
    /\ [i \in 1..Len(reply.items) |-> reply.items[i].insertText]
          = ExpectedCandidates(completion.response)
    /\ \A i \in 1..Len(reply.items) :
          reply.items[i].detail = ExpectedDetail(reply.items[i].insertText)

C22_CandidatesLabelled ==
    (reply.op = "completion" /\ reply.kind \in {"answer", "resolved"}) => CandidatesAsStated

\* the first candidate, eval(password), was resolved: its detail is the one of
\* the TypeScript placeholder item
C22_Counterexample ==
    /\ reply.op = "completion"
    /\ reply.kind = "resolved"
    /\ reply.items[1].insertText = completionText.evalPassword
    /\ reply.items[1].detail = "TypeScriptDetail"
    /\ ExpectedDetail(reply.items[1].insertText) = "codeInjection"

\* the list that generateCodeCompletion returns is as stated
CandidatesBeforeResolve ==
    (reply.op = "completion" /\ reply.kind = "answer") => CandidatesAsStated

CandidatesBeforeResolveReached ==
    /\ reply.op = "completion"
    /\ reply.kind = "answer"
    /\ Len(reply.items) = 3
    /\ Len(splitLines(completion.response)) > 3
    /\ reply.items[1].detail = "codeInjection"
    /\ reply.items[2].detail = "safeSuggestion"
    /\ reply.items[3].detail = "xss"

(***************************************************************************)
(* C27: the context that generateCodeCompletion passes to the model is     *)
(* exactly the min(n, 10) lines immediately before the cursor line, in     *)
(* document order, n being the number of lines before the cursor line; the *)
(* prefix of the current line is passed separately and is not in the       *)
(* context.                                                                *)
(***************************************************************************)
\* the last min(n, most) of the n lines before the cursor line, joined
PrecedingLines(lines, position, most) ==
    LET n == position.line
    IN join(SubSeq(lines, n - Min({n, most}) + 1, n))

\* a request at the model carries the last 10 lines before the cursor line as
\* its context and the prefix of the cursor line as its current line
C27_ContextIsTenPrecedingLines ==
    completion.stage = "model" =>
        /\ completion.context = PrecedingLines(completion.lines, completion.position, 10)
        /\ completion.currentLine = LinePrefix(completion.lines, completion.position)

\* with 10 lines before the cursor line the context starts at the second
C27_Counterexample ==
    /\ completion.stage = "model"
    /\ completion.position.line = 10
    /\ completion.context = join(SubSeq(completion.lines, 2, 10))
    /\ completion.context # join(SubSeq(completion.lines, 1, 10))

\* what the slice takes is the last 9 lines before the cursor line
ContextIsNinePrecedingLines ==
    completion.stage = "model" =>
        /\ completion.context = PrecedingLines(completion.lines, completion.position, 9)
        /\ completion.currentLine = LinePrefix(completion.lines, completion.position)

ContextOfNineReached ==
    /\ completion.stage = "model"
    /\ completion.position.line = 9
    /\ completion.context = join(SubSeq(completion.lines, 1, 9))

(***************************************************************************)
(* C23: inline completion is last-request-wins.  A new request cancels the *)
(* debounce timer of the previous one if it has not fired, and the answer  *)
(* of the server becomes displayed items only if, when it arrives, the     *)
(* position of its request equals the position of the most recent request; *)
(* an answer for a superseded position is never displayed.  A request is a *)
(* call that got past the checks at the top of the method.                 *)
(***************************************************************************)
\* the last call that became a request, 0 when there is none
MostRecentRequest ==
    LET requests == {i \in DOMAIN ghost.calls : ghost.calls[i].request}
    IN IF requests = {} THEN 0 ELSE Max(requests)

\* no timer is pending but the one of the most recent request
OnlyLastTimerPending ==
    \A i \in DOMAIN ghost.calls : ghost.calls[i].state = "timer" => i = MostRecentRequest

\* an answer becomes items only at the position of the most recent request
DisplayedAtLastPosition ==
    \A i \in DOMAIN ghost.calls :
        (ghost.calls[i].state = "sent" /\ ghost'.calls[i].state = "items")
            => ghost.calls[i].position = ghost.calls[MostRecentRequest].position

C23_LastRequestWins == []OnlyLastTimerPending /\ [][DisplayedAtLastPosition]_vars

\* the timer of the first request was cleared by the second; the answer to the
\* second came with items after the third request at another position and was
\* dropped; the answer to the third is displayed
C23_Witness ==
    /\ Len(ghost.calls) = 3
    /\ \A i \in 1..3 : ghost.calls[i].request
    /\ ghost.calls[1].state = "cleared"
    /\ ghost.calls[2].response = "items" /\ ghost.calls[2].state = "null"
    /\ ghost.calls[3].position # ghost.calls[2].position
    /\ ghost.calls[3].state = "items"

(***************************************************************************)
(* C30: every call of provideInlineCompletionItems eventually resolves,    *)
(* with items or with null, when the server answers every request it is    *)
(* sent; also a call that a newer request supersedes before its debounce   *)
(* timer has fired.                                                        *)
(***************************************************************************)
Resolved(i) == i \in DOMAIN ghost.calls /\ ghost.calls[i].state \in {"items", "null"}

C30_EveryCallResolves ==
    \A i \in 1..MaxCalls : (i \in DOMAIN ghost.calls) ~> Resolved(i)

\* the timer of the first call was cleared by the second, which is resolved:
\* nothing is pending and the promise of the first call was never resolved
C30_Counterexample ==
    /\ Len(ghost.calls) = 2
    /\ ghost.calls[1].state = "cleared"
    /\ Resolved(2)

\* a call whose timer fired is resolved once the answer is there, and a timer
\* does not stay pending
FiredCallResolves ==
    \A i \in 1..MaxCalls :
        /\ (i \in DOMAIN ghost.calls /\ ghost.calls[i].state = "sent") ~> Resolved(i)
        /\ (i \in DOMAIN ghost.calls /\ ghost.calls[i].state = "timer")
              ~> (i \in DOMAIN ghost.calls /\ ghost.calls[i].state # "timer")

\* a call whose timer was cleared stays as it is
ClearedStaysCleared ==
    [][\A i \in DOMAIN ghost.calls :
          ghost.calls[i].state = "cleared" => ghost'.calls[i].state = "cleared"]_vars

(***************************************************************************)
(* C24: the findings shown are those of the most recent update.  After any *)
(* sequence of updateIssues calls, once all delayed messages have been     *)
(* delivered, the severity counts and the score last sent to the dashboard *)
(* are those computed from the list of the latest call (after an update    *)
(* with an empty list no earlier findings or counts are displayed), and    *)
(* each update replaces the stored list as a whole.                        *)
(***************************************************************************)
\* the number of findings of each severity in a list
CountsOf(list) ==
    [severity \in {"critical", "high", "medium", "low"} |->
        Len(SelectSeq(list, LAMBDA issue : issue.severity = severity))]

\* the latest update found the view and no dashboard message is still delayed
Delivered == sidebar.view /\ sidebar.updates > 0 /\ sidebar.seen /\ sidebar.timers = <<>>

\* the counts the dashboard was last sent; none when it was sent no counts yet
LastCounts ==
    IF sidebar.posted.vulnerabilityNumber = <<>> THEN CountsOf(<<>>)
    ELSE sidebar.posted.vulnerabilityNumber

C24_LatestUpdateDisplayed ==
    /\ Len(sidebar.issues) <= MaxIssues
    /\ Delivered =>
          /\ LastCounts = CountsOf(sidebar.issues)
          /\ sidebar.posted.score = calculateSecurityScore(sidebar.issues)

\* after an update with one critical finding and an update with an empty
\* list, with every timer fired, the dashboard was last sent one critical
\* finding, its score and the list with the finding
C24_Counterexample ==
    /\ Delivered
    /\ sidebar.issues = <<>>
    /\ sidebar.posted.vulnerabilityNumber = CountsOf(<<Issue("critical")>>)
    /\ sidebar.posted.issues = <<Issue("critical")>>
    /\ sidebar.posted.score = calculateSecurityScore(<<Issue("critical")>>)

\* an update with a list that is not empty is displayed once delivered, and
\* the stored list and score are those of the latest update
NonEmptyUpdateDisplayed ==
    /\ Len(sidebar.issues) <= MaxIssues
    /\ sidebar.score = calculateSecurityScore(sidebar.issues)
    /\ (Delivered /\ sidebar.issues # <<>>) =>
          /\ sidebar.posted.issues = sidebar.issues
          /\ sidebar.posted.vulnerabilityNumber = CountsOf(sidebar.issues)
          /\ sidebar.posted.score = sidebar.score

NonEmptyUpdateDisplayedReached ==
    /\ Delivered
    /\ sidebar.updates = 3
    /\ sidebar.issues = <<Issue("low")>>
    /\ sidebar.posted.issues = sidebar.issues
    /\ sidebar.posted.vulnerabilityNumber = CountsOf(sidebar.issues)

(***************************************************************************)
(* C25: a failure of the knowledge retrieval is tolerated by               *)
(* getSecuritySuggestion, generateCodeCompletion and analyzeCodeSecurity:  *)
(* when the search of the knowledge base raises an error the operation     *)
(* goes on with an empty knowledge context, still invokes the model and    *)
(* returns the answer of the model, not an error or fallback result.       *)
(***************************************************************************)

\* an operation returned the result of its catch block and made no request to
\* the model
FailedBeforeModel(op) == reply.op = op /\ reply.kind = "failed" /\ reply.model = "null"

\* no operation fails before it has invoked the model
C25_RetrievalFailureTolerated == \A op \in LLMOperations : ~FailedBeforeModel(op)

\* getSecuritySuggestion with the embeddings initialized, over a corpus with an
\* item that has no pageContent: the search raised an error and the operation
\* returned the text of its catch block
C25_Counterexample ==
    /\ FailedBeforeModel("getSecuritySuggestion")
    /\ request = noRequest
    /\ llm.llmModel # "null"
    /\ llm.isEmbeddingsInitialized
    /\ \E snippet \in Codes : simpleKeywordSearch(kb.documents, snippet, 2).threw

\* analyzeCodeSecurity and generateCodeCompletion do not fail before the model
AnalysisToleratesRetrievalFailure ==
    ~FailedBeforeModel("analyzeCodeSecurity") /\ ~FailedBeforeModel("generateCodeCompletion")

\* analyzeCodeSecurity asks the model without knowledge after its search
\* raised an error
AnalysisWithoutKnowledgeReached ==
    /\ request.op = "analyzeCodeSecurity"
    /\ request.stage = "model"
    /\ request.docs = <<>>
    /\ llm.isEmbeddingsInitialized
    /\ \E text \in Codes : simpleKeywordSearch(kb.documents, text, 3).threw

(***************************************************************************)
(* C26: the result of runSecurityRules is the concatenation, in the order  *)
(* the rules are registered, of the findings of each registered rule in    *)
(* the order the rule produced them; findings of different rules on the    *)
(* same span are all kept, so the number of findings is the sum of the     *)
(* numbers of the rules.                                                   *)
(***************************************************************************)
\* the findings of the rules of a pass from the i-th on, one rule after the
\* other; a rule that raised an error has none
RECURSIVE FindingsFrom(_, _)
FindingsFrom(byRule, i) ==
    IF i > Len(byRule) THEN <<>>
    ELSE (IF byRule[i].threw THEN <<>> ELSE byRule[i].diagnostics) \o FindingsFrom(byRule, i + 1)

RECURSIVE CountFrom(_, _)
CountFrom(byRule, i) ==
    IF i > Len(byRule) THEN 0
    ELSE (IF byRule[i].threw THEN 0 ELSE Len(byRule[i].diagnostics)) + CountFrom(byRule, i + 1)

C26_FindingsConcatenated ==
    lastRun.returned =>
        /\ [i \in 1..Len(lastRun.byRule) |-> lastRun.byRule[i].id]
              = [i \in 1..Len(rules) |-> rules[i].id]
        /\ \A i \in 1..Len(rules) :
              ~lastRun.byRule[i].threw =>
                 lastRun.byRule[i].diagnostics = Validate(rules[i], Render(document)).diagnostics
        /\ lastRun.diagnostics = FindingsFrom(lastRun.byRule, 1)
        /\ Len(lastRun.diagnostics) = CountFrom(lastRun.byRule, 1)

\* two rules of a pass gave a finding each on the same span, and the result
\* holds both
C26_Witness ==
    /\ lastRun.returned
    /\ \E i, j \in 1..Len(lastRun.byRule) :
          /\ i < j
          /\ \E a \in DOMAIN lastRun.byRule[i].diagnostics :
                \E b \in DOMAIN lastRun.byRule[j].diagnostics :
                   lastRun.byRule[i].diagnostics[a].range = lastRun.byRule[j].diagnostics[b].range
    /\ Len(lastRun.diagnostics) = CountFrom(lastRun.byRule, 1)

(***************************************************************************)
(* C28: an index build is valid only for the corpus it was started on.     *)
(* When documents are added, cleared or reloaded while initVectorStore     *)
(* awaits the embedding backend, then after the call completes             *)
(* isVectorStoreInitialized() is true only if the index covers the current *)
(* corpus, under every interleaving of builds, imports and searches.       *)
(***************************************************************************)
\* a call of initVectorStore that awaited the backend completes in this step
BuildCompletes == Len(builds') < Len(builds)

C28_BuildValidForItsCorpus ==
    [][BuildCompletes =>
          (isVectorStoreInitialized(kb') => kb'.vectorStore.docs = kb'.documents)]_vars

\* the corpus was emptied while the build awaited the backend: initVectorStore
\* returned true, the flag is set, and the index holds the documents that the
\* knowledge base no longer has
C28_Counterexample ==
    /\ builds = <<>>
    /\ reply.op = "initVectorStore" /\ reply.ok
    /\ isVectorStoreInitialized(kb)
    /\ kb.vectorStore.docs # <<>>
    /\ kb.documents = <<>>

\* a build over a corpus that did not change while it was awaited leaves the
\* index of the current corpus
UndisturbedBuildIsCurrent ==
    [][(BuildCompletes /\ isVectorStoreInitialized(kb')
           /\ \E i \in 1..Len(builds) :
                 builds' = Remove(builds, i) /\ builds[i].docs = kb.documents)
          => IndexIsCurrent']_vars

UndisturbedBuildReached ==
    /\ builds = <<>>
    /\ reply.op = "initVectorStore" /\ reply.ok
    /\ isVectorStoreInitialized(kb)
    /\ IndexIsCurrent

(***************************************************************************)
(* C29: the readiness flag of the server agrees with the LLM module in     *)
(* every reachable state: isLLMInitialized is true exactly when the chat   *)
(* model is initialized, so that after any initialization that succeeds,   *)
(* at start-up or through a provider switch after a failed start-up,       *)
(* analyzeCode, getCodeFix and completion requests are served and not      *)
(* rejected as not initialized.                                            *)
(***************************************************************************)
C29_ReadinessAgrees == server.isLLMInitialized <=> (llm.llmModel # "null")

\* the start-up initialization failed, a provider switch succeeded and nothing
\* is in flight: the chat model is there and the flag is false
C29_Counterexample ==
    /\ server.phase = "initialized"
    /\ ~server.configPending
    /\ builds = <<>>
    /\ reply.op = "switchLLMProvider" /\ reply.ok
    /\ llm.llmModel # "null"
    /\ ~server.isLLMInitialized

\* the flag is never true without a chat model
ReadyOnlyWithModel == server.isLLMInitialized => (llm.llmModel # "null")

ReadyWithModelReached ==
    /\ server.isLLMInitialized
    /\ llm.llmModel # "null"
    /\ builds = <<>>

====
